---------------------------- MODULE Spec2Model ----------------------------
(***************************************************************************)
(* A model of env_logger: the directive filter, the default format and the *)
(* writer.                                                                 *)
(*                                                                         *)
(*   - parse_spec of crates/env_filter/src/parser.rs: the specification    *)
(*     string parser that collects directives, a content filter and        *)
(*     errors (specification ParserSpec);                                  *)
(*   - Builder, Filter and enabled of src/filter/mod.rs, with the          *)
(*     parse_spec of that file (specification Spec);                       *)
(*   - fmt::Builder and DefaultFormat of src/fmt/mod.rs: header, indent    *)
(*     strategies and the buffer of the Formatter (FormatSpec);            *)
(*   - StyledValue::write_fmt of src/fmt.rs (StyleSpec);                   *)
(*   - print of src/fmt/writer/target.rs and buffer.rs, called by several  *)
(*     threads (PrintSpec);                                                *)
(*   - the writer Builder of src/fmt/writer/mod.rs (WriterSpec);           *)
(*   - try_init and init of src/lib.rs on the logger of the log crate      *)
(*     (LoggerSpec);                                                       *)
(*   - FilteredLog of env_filter/src/filtered_log.rs (FilteredLogSpec).    *)
(*                                                                         *)
(* Strings are sequences of one-character strings, so that split, trim,    *)
(* starts_with and the level parser are computed as the code computes      *)
(* them.  Option<T> is a sequence of length 0 (None) or 1 (Some).          *)
(***************************************************************************)
EXTENDS Integers, Sequences, FiniteSets, TLC

\* ------------------------------------------------------------------ bounds

\* Longest specification string given to the parser, in fragments.
MaxFrags == 4

\* Longest message of a formatted record, in bytes.
MaxMsg == 2

\* Calls of the format closure on one formatter.
MaxPasses == 2

\* Styled values written into one buffer.
MaxStyled == 2

\* Records each thread prints.
MaxPrints == 1

\* Most filter() and parse() calls a builder receives before build().
MaxCalls == 3

\* Calls of try_init and init in one process.
MaxInits == 3

\* Calls on one FilteredLog.
MaxLogCalls == 2

\* ------------------------------------------------------- log::LevelFilter

Off == 0
Error == 1
Warn == 2
Info == 3
Debug == 4
Trace == 5

LevelFilters == Off..Trace

\* log::Level has no Off.
Levels == Error..Trace

\* LevelFilter::max()
LevelFilter_max == Trace

\* ------------------------------------------------------------------ Option

None == <<>>

Some(x) == <<x>>

\* ------------------------------------------------------------ str helpers

Whitespace == {" "}

\* char::to_ascii_lowercase on the letters of the level names.
to_ascii_lowercase(c) ==
    CASE c = "A" -> "a" [] c = "B" -> "b" [] c = "C" -> "c" [] c = "D" -> "d"
      [] c = "E" -> "e" [] c = "F" -> "f" [] c = "G" -> "g" [] c = "I" -> "i"
      [] c = "N" -> "n" [] c = "O" -> "o" [] c = "R" -> "r" [] c = "T" -> "t"
      [] c = "U" -> "u" [] c = "W" -> "w"
      [] OTHER -> c

eq_ignore_ascii_case(s, t) ==
    /\ Len(s) = Len(t)
    /\ \A i \in 1..Len(s) : to_ascii_lowercase(s[i]) = to_ascii_lowercase(t[i])

\* str::split(sep): the pieces between the separators, one piece for "".
RECURSIVE split(_, _)
split(s, sep) ==
    IF \E i \in 1..Len(s) : s[i] = sep
    THEN LET i == CHOOSE k \in 1..Len(s) :
                      s[k] = sep /\ \A j \in 1..(k - 1) : s[j] # sep
         IN  <<SubSeq(s, 1, i - 1)>> \o split(SubSeq(s, i + 1, Len(s)), sep)
    ELSE <<s>>

RECURSIVE trim_start(_)
trim_start(s) ==
    IF s # <<>> /\ s[1] \in Whitespace THEN trim_start(Tail(s)) ELSE s

RECURSIVE trim_end(_)
trim_end(s) ==
    IF s # <<>> /\ s[Len(s)] \in Whitespace
    THEN trim_end(SubSeq(s, 1, Len(s) - 1))
    ELSE s

\* str::trim
trim(s) == trim_end(trim_start(s))

\* str::starts_with
starts_with(target, name) ==
    /\ Len(name) <= Len(target)
    /\ SubSeq(target, 1, Len(name)) = name

\* str::contains
contains(text, pat) ==
    \E i \in 0..(Len(text) - Len(pat)) : SubSeq(text, i + 1, i + Len(pat)) = pat

\* The names LevelFilter::from_str compares with, at the index of the level.
LOG_LEVEL_NAMES ==
    << <<"o", "f", "f">>, <<"e", "r", "r", "o", "r">>, <<"w", "a", "r", "n">>,
       <<"i", "n", "f", "o">>, <<"d", "e", "b", "u", "g">>,
       <<"t", "r", "a", "c", "e">> >>

\* str::parse::<LevelFilter>(): Some(level) for a level name in any letter
\* case, None otherwise.
parse_level(s) ==
    IF \E p \in 1..Len(LOG_LEVEL_NAMES) : eq_ignore_ascii_case(LOG_LEVEL_NAMES[p], s)
    THEN Some((CHOOSE p \in 1..Len(LOG_LEVEL_NAMES) :
                  eq_ignore_ascii_case(LOG_LEVEL_NAMES[p], s)) - 1)
    ELSE None

\* ------------------------------------------------------------ FilterOp

\* The nesting depth of the groups of a pattern after its last character, -1
\* when a group is closed that was never opened.
RECURSIVE group_depth(_, _)
group_depth(pat, depth) ==
    IF pat = <<>> THEN depth
    ELSE IF pat[1] = "(" THEN group_depth(Tail(pat), depth + 1)
    ELSE IF pat[1] = ")"
         THEN IF depth = 0 THEN -1 ELSE group_depth(Tail(pat), depth - 1)
    ELSE group_depth(Tail(pat), depth)

\* FilterOp::new(pattern): Ok(filter), or Err(message) for a pattern whose
\* groups do not balance.
FilterOp_new(pat) ==
    IF group_depth(pat, 0) = 0
    THEN [ok |-> TRUE, op |-> pat]
    ELSE [ok |-> FALSE, op |-> <<"unbalanced group">>]

\* FilterOp::is_match(text)
is_match(op, text) == contains(text, op)


\* ------------------------------------------------------------------ state

VARIABLES
    spec,                \* parser: the fragments of the string given to parse_spec
    result,              \* parser: the ParseResult parse_spec returned
    pc,                  \* parser: "input" while the string is composed, then "parsed"
    builder_directives,  \* Builder.directives
    builder_filter,      \* Builder.filter
    filter_directives,   \* Filter.directives
    filter_filter,       \* Filter.filter
    built,               \* whether Builder::build has produced the Filter
    calls,               \* the filter() and parse() calls the builder received
    added,               \* the directives those calls pushed, in the order pushed
    query,               \* the last enabled()/matches()/filter() call and what it returned
    fmt_builder,         \* fmt::Builder: the default format's switches, built
    format,              \* the switches the closure of fmt::Builder::build captured
    now,                 \* the clock Formatter::timestamp reads
    formatter_buf,       \* Formatter.buf: the bytes written and not yet cleared
    pass,                \* the last call of the format closure
    prev,                \* the call of the format closure before that one
    style,               \* the Style of a formatter, None before Formatter::new
    styled,              \* the last StyledValue written: what was done, the result
    style_buf,           \* the buffer the Style shares with its formatter
    writable_target,     \* the WritableTarget of the writer, None before it is built
    lock,                \* the thread that holds the lock of the transport
    thread,              \* each thread: where it is in print, its record, bytes left
    transport,           \* the bytes the transport took, each with its record
    writer_builder,      \* writer::Builder: target_type, write_style, is_test, built
    tty,                 \* whether stdout and stderr are terminals
    writer,              \* the Writer of Builder::build, None before
    style_spec,          \* the string last given to parse_write_style, if it still decides
    global_logger,       \* the logger installed in the log crate, None before
    max_log_level,       \* the maximum level of the log crate
    init_calls,          \* the try_init and init calls made and their results
    alive,               \* the threads that have not panicked
    filtered_log,        \* the FilteredLog, None before FilteredLog::new
    inner_calls,         \* the calls the wrapped log of the FilteredLog received
    outer                \* the last call on the FilteredLog and its result

vars == <<spec, result, pc, builder_directives, builder_filter,
          filter_directives, filter_filter, built, calls, added, query,
          fmt_builder, format, now, formatter_buf, pass, prev,
          style, styled, style_buf,
          writable_target, lock, thread, transport,
          writer_builder, tty, writer, style_spec,
          global_logger, max_log_level, init_calls, alive,
          filtered_log, inner_calls, outer>>

parser_vars == <<spec, result, pc>>

filter_vars == <<builder_directives, builder_filter, filter_directives,
                 filter_filter, built, calls, added, query>>

directive_vars == <<parser_vars, filter_vars>>

format_vars == <<fmt_builder, format, now, formatter_buf, pass, prev>>

style_vars == <<style, styled, style_buf>>

print_vars == <<writable_target, lock, thread, transport>>

writer_vars == <<writer_builder, tty, writer, style_spec>>

init_vars == <<global_logger, max_log_level, init_calls, alive>>

wrap_vars == <<filtered_log, inner_calls, outer>>

log_vars == <<init_vars, wrap_vars>>

output_vars == <<format_vars, style_vars, print_vars, writer_vars, log_vars>>

\* ----------------------------------------- parser.rs: ParseResult, parse_spec

\* ParseResult::default()
ParseResult_default == [directives |-> <<>>, filter |-> None, errors |-> <<>>]

\* add_directive keeping one directive of a name.
add_directive_merged(r, directive) ==
    IF \E i \in 1..Len(r.directives) : r.directives[i].name = directive.name
    THEN r
    ELSE [r EXCEPT !.directives = Append(@, directive)]

add_directive(r, directive) == [r EXCEPT !.directives = Append(@, directive)]

set_filter(r, filter) == [r EXCEPT !.filter = Some(filter)]

add_error(r, message) == [r EXCEPT !.errors = Append(@, message)]

Directive(name, level) == [name |-> name, level |-> level]

\* parse_directive taking the empty level of "name=" for an unparseable one.
parse_directive_empty_level(r, s) ==
    IF s = <<>> THEN r
    ELSE
    LET parts == split(s, "=")
        part0 == parts[1]
        part1 == IF Len(parts) >= 2 THEN Some(trim(parts[2])) ELSE None
        part2 == IF Len(parts) >= 3 THEN Some(parts[3]) ELSE None
    IN  CASE part1 = None ->
               LET num == parse_level(part0)
               IN  IF num # None
                   THEN add_directive(r, Directive(None, num[1]))
                   ELSE add_directive(r, Directive(Some(part0), LevelFilter_max))
          [] part1 # None /\ part2 = None ->
               LET num == parse_level(part1[1])
               IN  IF num # None
                   THEN add_directive(r, Directive(Some(part0), num[1]))
                   ELSE add_error(r, [msg |-> "invalid logging spec", arg |-> part1[1]])
          [] OTHER ->
               add_error(r, [msg |-> "invalid logging spec", arg |-> s])

\* The body of the loop over the trimmed pieces of the first segment: the
\* result after the piece s.
parse_directive(r, s) ==
    IF s = <<>> THEN r
    ELSE
    LET parts == split(s, "=")
        part0 == parts[1]
        part1 == IF Len(parts) >= 2 THEN Some(trim(parts[2])) ELSE None
        part2 == IF Len(parts) >= 3 THEN Some(parts[3]) ELSE None
    IN  CASE part1 = None ->
               LET num == parse_level(part0)
               IN  IF num # None
                   THEN add_directive(r, Directive(None, num[1]))
                   ELSE add_directive(r, Directive(Some(part0), LevelFilter_max))
          [] part1 = Some(<<>>) /\ part2 = None ->
               add_directive(r, Directive(Some(part0), LevelFilter_max))
          [] part1 # None /\ part1 # Some(<<>>) /\ part2 = None ->
               LET num == parse_level(part1[1])
               IN  IF num # None
                   THEN add_directive(r, Directive(Some(part0), num[1]))
                   ELSE add_error(r, [msg |-> "invalid logging spec", arg |-> part1[1]])
          [] OTHER ->
               add_error(r, [msg |-> "invalid logging spec", arg |-> s])

\* parse_mods leaving the loop at the first piece that records an error.
RECURSIVE parse_mods_break(_, _)
parse_mods_break(r, pieces) ==
    IF pieces = <<>> THEN r
    ELSE LET r1 == parse_directive(r, trim(Head(pieces)))
         IN  IF Len(r1.errors) > Len(r.errors) THEN r1
             ELSE parse_mods_break(r1, Tail(pieces))

\* parse_mods without the trim of each piece.
RECURSIVE parse_mods_untrimmed(_, _)
parse_mods_untrimmed(r, pieces) ==
    IF pieces = <<>> THEN r
    ELSE parse_mods_untrimmed(parse_directive(r, Head(pieces)), Tail(pieces))

\* for s in m.split(',').map(|ss| ss.trim()) { ... }
RECURSIVE parse_mods(_, _)
parse_mods(r, pieces) ==
    IF pieces = <<>> THEN r
    ELSE parse_mods(parse_directive(r, trim(Head(pieces))), Tail(pieces))

\* parse_filter giving up the directives when the pattern does not compile.
parse_filter_reset(r, filter) ==
    IF filter = None THEN r
    ELSE LET compiled == FilterOp_new(filter[1])
         IN  IF compiled.ok
             THEN set_filter(r, compiled.op)
             ELSE add_error([r EXCEPT !.directives = <<>>],
                            [msg |-> "invalid regex filter", arg |-> compiled.op])

\* if let Some(filter) = filter { match FilterOp::new(filter) ... }
parse_filter(r, filter) ==
    IF filter = None THEN r
    ELSE LET compiled == FilterOp_new(filter[1])
         IN  IF compiled.ok
             THEN set_filter(r, compiled.op)
             ELSE add_error(r, [msg |-> "invalid regex filter", arg |-> compiled.op])

\* parse_spec recording the error of too many '/' and parsing on.
parse_spec_no_return(s) ==
    LET parts  == split(s, "/")
        mods   == parts[1]
        filter == IF Len(parts) >= 2 THEN Some(parts[2]) ELSE None
        r0     == IF Len(parts) >= 3
                  THEN add_error(ParseResult_default,
                           [msg |-> "invalid logging spec (too many '/'s)", arg |-> s])
                  ELSE ParseResult_default
    IN  parse_filter(parse_mods(r0, split(mods, ",")), filter)

parse_spec(s) ==
    LET parts  == split(s, "/")
        mods   == parts[1]
        filter == IF Len(parts) >= 2 THEN Some(parts[2]) ELSE None
    IN  IF Len(parts) >= 3
        THEN add_error(ParseResult_default,
                       [msg |-> "invalid logging spec (too many '/'s)", arg |-> s])
        ELSE parse_filter(parse_mods(ParseResult_default, split(mods, ",")), filter)

\* ------------------------------------------------------- the parser's inputs

\* A specification string is composed of at most MaxFrags of these.
Fragments ==
    { <<"a">>, <<"b">>, <<" ">>, <<"=">>, <<",">>, <<"/">>, <<"(">>,
      <<"w", "a", "r", "n">>, <<"w", "A", "r", "N">> }

\* The string the fragments make.
RECURSIVE concat(_)
concat(frags) == IF frags = <<>> THEN <<>> ELSE Head(frags) \o concat(Tail(frags))

InitParser ==
    /\ spec = <<>>
    /\ result = ParseResult_default
    /\ pc = "input"

\* The caller composes the string.
Compose(f) ==
    /\ pc = "input"
    /\ Len(spec) < MaxFrags
    /\ spec' = Append(spec, f)
    /\ UNCHANGED <<result, pc>>
    /\ UNCHANGED filter_vars
    /\ UNCHANGED output_vars

\* let result = parse_spec(spec)
Parse ==
    /\ pc = "input"
    /\ result' = parse_spec(concat(spec))
    /\ pc' = "parsed"
    /\ UNCHANGED spec
    /\ UNCHANGED filter_vars
    /\ UNCHANGED output_vars

\* ------------------------------------- src/filter/mod.rs: Builder and Filter

\* The body of the loop of the parse_spec of src/filter/mod.rs over the
\* pieces of the first segment, which are not trimmed: the directives after
\* the piece s.  A piece that does not parse prints a warning and is skipped.
filter_parse_directive(dirs, s) ==
    IF Len(s) = 0 THEN dirs
    ELSE
    LET parts == split(s, "=")
        part0 == parts[1]
        part1 == IF Len(parts) >= 2 THEN Some(trim(parts[2])) ELSE None
        part2 == IF Len(parts) >= 3 THEN Some(parts[3]) ELSE None
    IN  CASE part1 = None ->
               LET num == parse_level(part0)
               IN  IF num # None
                   THEN Append(dirs, Directive(None, num[1]))
                   ELSE Append(dirs, Directive(Some(part0), LevelFilter_max))
          [] part1 = Some(<<>>) /\ part2 = None ->
               Append(dirs, Directive(Some(part0), LevelFilter_max))
          [] part1 # None /\ part1 # Some(<<>>) /\ part2 = None ->
               LET num == parse_level(part1[1])
               IN  IF num # None
                   THEN Append(dirs, Directive(Some(part0), num[1]))
                   ELSE dirs
          [] OTHER -> dirs

\* mods.map(|m| { for s in m.split(',') { ... } })
RECURSIVE filter_parse_mods(_, _)
filter_parse_mods(dirs, pieces) ==
    IF pieces = <<>> THEN dirs
    ELSE filter_parse_mods(filter_parse_directive(dirs, Head(pieces)), Tail(pieces))

\* The parse_spec of src/filter/mod.rs: (directives, content filter).
filter_parse_spec(s) ==
    LET parts  == split(s, "/")
        mods   == parts[1]
        filter == IF Len(parts) >= 2 THEN Some(parts[2]) ELSE None
    IN  IF Len(parts) >= 3
        THEN [directives |-> <<>>, filter |-> None]
        ELSE [directives |-> filter_parse_mods(<<>>, split(mods, ",")),
              filter |-> IF filter # None /\ FilterOp_new(filter[1]).ok
                         THEN Some(FilterOp_new(filter[1]).op)
                         ELSE None]

\* a.name.as_ref().map(|a| a.len()).unwrap_or(0)
name_len(d) == IF d.name = None THEN 0 ELSE Len(d.name[1])

\* d put into the sorted sequence behind every element that is not longer.
RECURSIVE insert_by_len(_, _)
insert_by_len(sorted, d) ==
    IF sorted = <<>> THEN <<d>>
    ELSE IF name_len(sorted[Len(sorted)]) <= name_len(d) THEN Append(sorted, d)
    ELSE Append(insert_by_len(SubSeq(sorted, 1, Len(sorted) - 1), d),
                sorted[Len(sorted)])

RECURSIVE sort_prefix(_, _)
sort_prefix(dirs, n) ==
    IF n = 0 THEN <<>> ELSE insert_by_len(sort_prefix(dirs, n - 1), dirs[n])

\* The directives left as they were pushed.
sort_by_name_len_skipped(dirs) == dirs

\* The sort by the length of the name with directives of equal length left
\* in the reverse of the order they were pushed in.
sort_by_name_len_unstable(dirs) ==
    sort_prefix([i \in 1..Len(dirs) |-> dirs[Len(dirs) + 1 - i]], Len(dirs))

\* self.directives.sort_by(...): the stable sort by the length of the name.
sort_by_name_len(dirs) == sort_prefix(dirs, Len(dirs))

\* Filter::filter giving the level of the last directive, the one with the
\* longest name.
Filter_filter_last(directives) ==
    IF directives = <<>> THEN Off
    ELSE directives[Len(directives)].level

\* Filter::filter: the greatest level of the directives, Off without any.
Filter_filter(directives) ==
    IF directives = <<>> THEN Off
    ELSE CHOOSE m \in {directives[i].level : i \in 1..Len(directives)} :
            \A i \in 1..Len(directives) : directives[i].level <= m

\* enabled falling through to true when no directive matches.
RECURSIVE enabled_fail_open(_, _, _)
enabled_fail_open(directives, level, target) ==
    IF directives = <<>> THEN TRUE
    ELSE LET directive == directives[Len(directives)]
         IN  IF directive.name # None /\ ~starts_with(target, directive.name[1])
             THEN enabled_fail_open(SubSeq(directives, 1, Len(directives) - 1),
                                    level, target)
             ELSE level <= directive.level

\* enabled comparing with < instead of <=.
RECURSIVE enabled_strict(_, _, _)
enabled_strict(directives, level, target) ==
    IF directives = <<>> THEN FALSE
    ELSE LET directive == directives[Len(directives)]
         IN  IF directive.name # None /\ ~starts_with(target, directive.name[1])
             THEN enabled_strict(SubSeq(directives, 1, Len(directives) - 1),
                                 level, target)
             ELSE level < directive.level

\* fn enabled(directives, level, target): the directives are scanned from
\* the end, the first whose name is None or a prefix of the target decides.
RECURSIVE enabled(_, _, _)
enabled(directives, level, target) ==
    IF directives = <<>> THEN FALSE
    ELSE LET directive == directives[Len(directives)]
         IN  IF directive.name # None /\ ~starts_with(target, directive.name[1])
             THEN enabled(SubSeq(directives, 1, Len(directives) - 1), level, target)
             ELSE level <= directive.level

\* matches without the content filter.
matches_unfiltered(directives, filter, level, target, args) ==
    [result |-> enabled(directives, level, target), consulted |-> FALSE]

\* Filter::matches(record): what it returns and whether it called is_match.
matches(directives, filter, level, target, args) ==
    IF ~enabled(directives, level, target)
    THEN [result |-> FALSE, consulted |-> FALSE]
    ELSE IF filter # None
    THEN [result |-> is_match(filter[1], args), consulted |-> TRUE]
    ELSE [result |-> TRUE, consulted |-> FALSE]

\* --------------------------------------------------- the builder's inputs

\* The module names given to Builder::filter.
Modules == {None, Some(<<"a">>), Some(<<"a", "b">>), Some(<<"a", "b", "c">>)}

\* The thresholds given to Builder::filter.
Thresholds == {Off, Debug}

\* The strings given to Builder::parse: empty, blank, two '=', a content
\* filter alone, a name with a level.
SpecInputs ==
    {<<>>, <<" ">>, <<"=", "=">>, <<"/", "b">>,
     <<"a", "b", "=", "o", "f", "f">>}

\* The records and metadata given to the built filter.
QueryLevels == {Error, Debug, Trace}

Targets == {<<"a", "b">>, <<"a", "b", "c">>, <<"b", "a">>}

Messages == {<<"a">>, <<"b">>}

NoQuery ==
    [op |-> "none", level |-> Error, target |-> <<>>, args |-> <<>>,
     result |-> FALSE, consulted |-> FALSE]

\* ------------------------------------------------------------- operations

\* Builder::filter(module, level)
Builder_filter(module, level) ==
    /\ ~built
    /\ Len(calls) < MaxCalls
    /\ builder_directives' = Append(builder_directives, Directive(module, level))
    /\ added' = Append(added, Directive(module, level))
    /\ calls' = Append(calls, [op |-> "filter", module |-> module,
                               level |-> level, filters |-> <<>>])
    /\ UNCHANGED <<builder_filter, filter_directives, filter_filter, built, query>>
    /\ UNCHANGED parser_vars
    /\ UNCHANGED output_vars

\* Builder::parse keeping the content filter it has when the string gives
\* none.
Builder_parse_filter_kept(filters) ==
    /\ ~built
    /\ Len(calls) < MaxCalls
    /\ LET parsed == filter_parse_spec(filters)
       IN  /\ builder_filter' = IF parsed.filter = None THEN builder_filter
                                ELSE parsed.filter
           /\ builder_directives' = builder_directives \o parsed.directives
           /\ added' = added \o parsed.directives
    /\ calls' = Append(calls, [op |-> "parse", module |-> None,
                               level |-> Off, filters |-> filters])
    /\ UNCHANGED <<filter_directives, filter_filter, built, query>>
    /\ UNCHANGED parser_vars
    /\ UNCHANGED output_vars

\* Builder::parse(filters)
Builder_parse(filters) ==
    /\ ~built
    /\ Len(calls) < MaxCalls
    /\ LET parsed == filter_parse_spec(filters)
       IN  /\ builder_filter' = parsed.filter
           /\ builder_directives' = builder_directives \o parsed.directives
           /\ added' = added \o parsed.directives
    /\ calls' = Append(calls, [op |-> "parse", module |-> None,
                               level |-> Off, filters |-> filters])
    /\ UNCHANGED <<filter_directives, filter_filter, built, query>>
    /\ UNCHANGED parser_vars
    /\ UNCHANGED output_vars

\* Builder::build(); the model follows a builder up to its first build.
Builder_build ==
    /\ ~built
    /\ filter_directives' =
          IF builder_directives = <<>>
          THEN <<Directive(None, Error)>>
          ELSE sort_by_name_len(builder_directives)
    /\ filter_filter' = builder_filter
    /\ builder_directives' = <<>>
    /\ builder_filter' = None
    /\ built' = TRUE
    /\ UNCHANGED <<calls, added, query>>
    /\ UNCHANGED parser_vars
    /\ UNCHANGED output_vars

\* Filter::enabled(metadata); the model follows one call on the built filter.
Filter_enabled(level, target) ==
    /\ built
    /\ query.op = "none"
    /\ query' = [op |-> "enabled", level |-> level, target |-> target,
                 args |-> <<>>,
                 result |-> enabled(filter_directives, level, target),
                 consulted |-> FALSE]
    /\ UNCHANGED <<builder_directives, builder_filter, filter_directives,
                   filter_filter, built, calls, added>>
    /\ UNCHANGED parser_vars
    /\ UNCHANGED output_vars

\* Filter::matches(record); the model follows one call on the built filter.
Filter_matches(level, target, args) ==
    /\ built
    /\ query.op = "none"
    /\ LET m == matches(filter_directives, filter_filter, level, target, args)
       IN  query' = [op |-> "matches", level |-> level, target |-> target,
                     args |-> args, result |-> m.result,
                     consulted |-> m.consulted]
    /\ UNCHANGED <<builder_directives, builder_filter, filter_directives,
                   filter_filter, built, calls, added>>
    /\ UNCHANGED parser_vars
    /\ UNCHANGED output_vars

\* Filter::filter(); the level it returned is kept in query.level.
Filter_filter_called ==
    /\ built
    /\ query.op = "none"
    /\ query' = [op |-> "filter", level |-> Filter_filter(filter_directives),
                 target |-> <<>>, args |-> <<>>, result |-> FALSE,
                 consulted |-> FALSE]
    /\ UNCHANGED <<builder_directives, builder_filter, filter_directives,
                   filter_filter, built, calls, added>>
    /\ UNCHANGED parser_vars
    /\ UNCHANGED output_vars

InitFilter ==
    /\ builder_directives = <<>>
    /\ builder_filter = None
    /\ filter_directives = <<>>
    /\ filter_filter = None
    /\ built = FALSE
    /\ calls = <<>>
    /\ added = <<>>
    /\ query = NoQuery

\* ------------------------------------------- src/fmt/mod.rs: DefaultFormat

\* Indent
Indent_Spaces(n) == [kind |-> "Spaces", n |-> n]

Indent_Auto == [kind |-> "Auto", n |-> 0]

Indent_RepeatHeader == [kind |-> "RepeatHeader", n |-> 0]

Indent_None == [kind |-> "None", n |-> 0]

\* One character that UTF-8 encodes in two bytes; every other character of
\* the model is ASCII.
TwoByteChar == "U+00E9"

\* str::len: the length of a string in bytes.
RECURSIVE len(_)
len(s) ==
    IF s = <<>> THEN 0
    ELSE (IF Head(s) = TwoByteChar THEN 2 ELSE 1) + len(Tail(s))

\* format_args!("{:width$}", ""): width spaces.
spaces(width) == [i \in 1..width |-> " "]

\* format_args!("{:<5}", value): value, then spaces up to width characters.
pad_left_aligned(value, width) ==
    value \o spaces(IF Len(value) < width THEN width - Len(value) ELSE 0)

\* Display of log::Level.
Level_fmt(level) ==
    CASE level = Error -> <<"E", "R", "R", "O", "R">>
      [] level = Warn -> <<"W", "A", "R", "N">>
      [] level = Info -> <<"I", "N", "F", "O">>
      [] level = Debug -> <<"D", "E", "B", "U", "G">>
      [] level = Trace -> <<"T", "R", "A", "C", "E">>

Digits == <<"0", "1", "2", "3", "4", "5", "6", "7", "8", "9">>

\* Display of Timestamp: RFC 3339 in seconds; t is the second read.
Timestamp_fmt(t) ==
    <<"1", "9", "7", "0", "-", "0", "1", "-", "0", "1", "T",
      "0", "0", ":", "0", "0", ":", "0", Digits[t + 1], "Z">>

\* Display of PreciseTimestamp: RFC 3339 in nanoseconds.
PreciseTimestamp_fmt(t) ==
    <<"1", "9", "7", "0", "-", "0", "1", "-", "0", "1", "T",
      "0", "0", ":", "0", "0", ":", "0", Digits[t + 1], ".",
      "0", "0", "0", "0", "0", "0", "0", "0", "0", "Z">>

\* fmt::Builder::default()
FmtBuilder_default ==
    [default_format_timestamp |-> TRUE,
     default_format_timestamp_nanos |-> FALSE,
     default_format_module_path |-> TRUE,
     default_format_level |-> TRUE,
     default_format_indent |-> Indent_None,
     built |-> FALSE]

\* The DefaultFormat the closure of Builder::build constructs for one call;
\* reads counts the times the clock was read during the call.
DefaultFormat_new(b, buf) ==
    [timestamp |-> b.default_format_timestamp,
     timestamp_nanos |-> b.default_format_timestamp_nanos,
     module_path |-> b.default_format_module_path,
     level |-> b.default_format_level,
     indent |-> b.default_format_indent,
     written_header_count |-> 0,
     buf |-> buf,
     cached_timestamp |-> None,
     cached_precise_timestamp |-> None,
     reads |-> 0,
     steps |-> <<>>]

\* The record being written enters the header or the body: the step is noted
\* when it differs from the one the record is in.
enter(f, step) ==
    IF f.steps # <<>> /\ f.steps[Len(f.steps)] = step THEN f
    ELSE [f EXCEPT !.steps = Append(@, step)]

\* Formatter::timestamp and Formatter::precise_timestamp: the clock, which
\* has advanced at every later read of the same call.
Formatter_timestamp(f) == now + f.reads

\* DefaultFormat::write_header_value; subtle_style leaves the bracket as it
\* is when the style is not written.
write_header_value(f, value) ==
    [f EXCEPT !.buf = @ \o (IF f.written_header_count = 0
                            THEN <<"[">> ELSE <<" ">>) \o value,
              !.written_header_count = @ + 1]

\* DefaultFormat::write_timestamp
write_timestamp(f) ==
    IF ~f.timestamp THEN f
    ELSE IF f.timestamp_nanos
    THEN LET cached == f.cached_precise_timestamp # None
             ts_nanos == IF cached THEN f.cached_precise_timestamp[1]
                         ELSE Formatter_timestamp(f)
             g == write_header_value(f, PreciseTimestamp_fmt(ts_nanos))
         IN  [g EXCEPT !.written_header_count = @ + 30,
                       !.cached_precise_timestamp = Some(ts_nanos),
                       !.reads = IF cached THEN @ ELSE @ + 1]
    ELSE LET cached == f.cached_timestamp # None
             ts == IF cached THEN f.cached_timestamp[1]
                   ELSE Formatter_timestamp(f)
             g == write_header_value(f, Timestamp_fmt(ts))
         IN  [g EXCEPT !.written_header_count = @ + 20,
                       !.cached_timestamp = Some(ts),
                       !.reads = IF cached THEN @ ELSE @ + 1]

\* DefaultFormat::write_level
write_level(f, record) ==
    IF ~f.level THEN f
    ELSE LET g == write_header_value(f, pad_left_aligned(Level_fmt(record.level), 5))
         IN  [g EXCEPT !.written_header_count = @ + 5]

\* DefaultFormat::write_module_path
write_module_path(f, record) ==
    IF ~f.module_path THEN f
    ELSE IF record.module_path # None
    THEN LET g == write_header_value(f, record.module_path[1])
         IN  [g EXCEPT !.written_header_count = @ + len(record.module_path[1])]
    ELSE f

\* finish_header closing a header that was never opened.
finish_header_unconditional(f) ==
    [f EXCEPT !.buf = @ \o <<"]", " ">>,
              !.written_header_count = @ + 2]

\* DefaultFormat::finish_header
finish_header(f) ==
    IF f.written_header_count > 0
    THEN [f EXCEPT !.buf = @ \o <<"]", " ">>,
                   !.written_header_count = @ + 2]
    ELSE f

\* write_header going on from the count of the header before.
write_header_no_reset(f, record) ==
    finish_header(write_module_path(write_level(write_timestamp(
        enter(f, "WritingHeader")), record), record))

\* DefaultFormat::write_header
write_header(f, record) ==
    finish_header(
        write_module_path(
            write_level(
                write_timestamp(enter([f EXCEPT !.written_header_count = 0],
                                      "WritingHeader")),
                record),
            record))

\* The loop of IndentWrapper::write over the chunks between the newlines of
\* one write call.
RECURSIVE IndentWrapper_chunks(_, _, _, _, _)
IndentWrapper_chunks(f, record, indent_count, chunks, first) ==
    IF chunks = <<>> THEN f
    ELSE LET newline == [f EXCEPT !.buf = @ \o <<"\n">>]
             g == IF first THEN f
                  ELSE IF indent_count # None
                  THEN [newline EXCEPT
                           !.buf = @ \o spaces(indent_count[1]) \o <<"|", " ">>]
                  ELSE write_header(newline, record)
         IN  IndentWrapper_chunks(
                 [enter(g, "WritingBody") EXCEPT !.buf = @ \o Head(chunks)],
                 record, indent_count, Tail(chunks), FALSE)

\* IndentWrapper::write over the lines of the buffer, without the empty
\* chunk after a newline that ends it.
IndentWrapper_write_lines(f, record, indent_count, buf) ==
    LET chunks == split(buf, "\n")
    IN  IndentWrapper_chunks(f, record, indent_count,
            IF Len(chunks) > 1 /\ chunks[Len(chunks)] = <<>>
            THEN SubSeq(chunks, 1, Len(chunks) - 1) ELSE chunks,
            TRUE)

\* IndentWrapper::write
IndentWrapper_write(f, record, indent_count, buf) ==
    IndentWrapper_chunks(f, record, indent_count, split(buf, "\n"), TRUE)

\* write!(wrapper, "{}", record.args()): one write call for each piece the
\* formatting machinery hands over.
RECURSIVE IndentWrapper_write_fmt(_, _, _, _)
IndentWrapper_write_fmt(f, record, indent_count, pieces) ==
    IF pieces = <<>> THEN f
    ELSE IndentWrapper_write_fmt(
             IndentWrapper_write(f, record, indent_count, Head(pieces)),
             record, indent_count, Tail(pieces))

\* write_args ending the record only when the message did not end the line.
write_args_one_newline(f, record) ==
    IF f.indent.kind = "None"
    THEN LET message == concat(record.args)
         IN  [enter(f, "WritingBody") EXCEPT !.buf = @ \o message
                           \o (IF message # <<>> /\ message[Len(message)] = "\n"
                               THEN <<>> ELSE <<"\n">>)]
    ELSE LET indent_count ==
                 CASE f.indent.kind = "Spaces" -> Some(f.indent.n)
                   [] f.indent.kind = "Auto" ->
                          Some(IF f.written_header_count < 2 THEN 0
                               ELSE f.written_header_count - 2)
                   [] f.indent.kind = "RepeatHeader" -> None
             g == IndentWrapper_write_fmt(f, record, indent_count, record.args)
         IN  [enter(g, "WritingBody") EXCEPT !.buf = @ \o <<"\n">>]

\* DefaultFormat::write_args
write_args(f, record) ==
    IF f.indent.kind = "None"
    THEN [enter(f, "WritingBody") EXCEPT
              !.buf = @ \o concat(record.args) \o <<"\n">>]
    ELSE LET indent_count ==
                 CASE f.indent.kind = "Spaces" -> Some(f.indent.n)
                   [] f.indent.kind = "Auto" ->
                          Some(IF f.written_header_count < 2 THEN 0
                               ELSE f.written_header_count - 2)
                   [] f.indent.kind = "RepeatHeader" -> None
             g == IndentWrapper_write_fmt(f, record, indent_count, record.args)
         IN  [enter(g, "WritingBody") EXCEPT !.buf = @ \o <<"\n">>]

\* write with the message before the header.
write_args_first(f, record) == write_header(write_args(f, record), record)

\* DefaultFormat::write
write(f, record) == write_args(write_header(f, record), record)

\* Formatter::clear leaving the bytes of the record before.
Formatter_clear_kept(buf) == buf

\* Formatter::clear
Formatter_clear(buf) == <<>>

\* ------------------------------------------------ inputs of the formatter

\* The widths given to Indent::Spaces.
Widths == {0, 2}

Indents ==
    {Indent_None, Indent_Auto, Indent_RepeatHeader}
        \cup {Indent_Spaces(n) : n \in Widths}

FormatLevels == {Error, Info}

ModulePaths == {None, Some(<<"m">>), Some(<<TwoByteChar>>)}

MsgChars == {"a", "\n"}

\* The ways the formatting machinery can hand a message over: every
\* sequence of non-empty pieces that concatenates to it.
RECURSIVE Splits(_)
Splits(s) ==
    IF s = <<>> THEN {<<>>}
    ELSE UNION {{<<SubSeq(s, 1, k)>> \o rest :
                    rest \in Splits(SubSeq(s, k + 1, Len(s)))} : k \in 1..Len(s)}

FormatArgs ==
    UNION {Splits(s) : s \in UNION {[1..k -> MsgChars] : k \in 0..MaxMsg}}

Records ==
    [level : FormatLevels, module_path : ModulePaths, args : FormatArgs]

Clock == {0, 1}

NoPass ==
    [n |-> 0,
     record |-> [level |-> Error, module_path |-> None, args |-> <<>>],
     now |-> 0, fresh |-> FALSE, cleared |-> FALSE, out |-> <<>>, count |-> 0,
     steps |-> <<>>]

\* --------------------------------------------- operations of the formatter

\* The caller sets the public switches of fmt::Builder; the nanosecond
\* switch is only read when the timestamp is written.
FmtBuilder_configure(timestamp, nanos, module_path, level, indent) ==
    /\ ~fmt_builder.built
    /\ fmt_builder = FmtBuilder_default
    /\ nanos => timestamp
    /\ fmt_builder' = [default_format_timestamp |-> timestamp,
                       default_format_timestamp_nanos |-> nanos,
                       default_format_module_path |-> module_path,
                       default_format_level |-> level,
                       default_format_indent |-> indent,
                       built |-> FALSE]
    /\ UNCHANGED <<format, now, formatter_buf, pass, prev>>
    /\ UNCHANGED directive_vars
    /\ UNCHANGED log_vars
    /\ UNCHANGED writer_vars
    /\ UNCHANGED print_vars
    /\ UNCHANGED style_vars

\* fmt::Builder::build: the closure takes the switches, the builder is left
\* consumed.
FmtBuilder_build ==
    /\ ~fmt_builder.built
    /\ format' = Some(fmt_builder)
    /\ fmt_builder' = [FmtBuilder_default EXCEPT !.built = TRUE]
    /\ UNCHANGED <<now, formatter_buf, pass, prev>>
    /\ UNCHANGED directive_vars
    /\ UNCHANGED log_vars
    /\ UNCHANGED writer_vars
    /\ UNCHANGED print_vars
    /\ UNCHANGED style_vars

\* One call of the closure of fmt::Builder::build on the formatter.
Closure_call(record) ==
    /\ format # None
    /\ pass.n < MaxPasses
    /\ LET f == write(DefaultFormat_new(format[1], formatter_buf), record)
       IN  /\ formatter_buf' = f.buf
           /\ pass' = [n |-> pass.n + 1, record |-> record, now |-> now,
                       fresh |-> formatter_buf = <<>>, cleared |-> FALSE,
                       out |-> f.buf, count |-> f.written_header_count,
                       steps |-> f.steps]
    /\ prev' = pass
    /\ UNCHANGED <<fmt_builder, format, now>>
    /\ UNCHANGED directive_vars
    /\ UNCHANGED log_vars
    /\ UNCHANGED writer_vars
    /\ UNCHANGED print_vars
    /\ UNCHANGED style_vars

\* The first record is formatted.
Format(record) ==
    /\ pass.n = 0
    /\ Closure_call(record)

\* The same record is formatted again.
Format_again ==
    /\ pass.n > 0
    /\ Closure_call(pass.record)

\* Formatter::clear, between two calls of the closure.
Clear ==
    /\ pass.n > 0
    /\ pass.n < MaxPasses
    /\ ~pass.cleared
    /\ formatter_buf' = Formatter_clear(formatter_buf)
    /\ pass' = [pass EXCEPT !.cleared = TRUE]
    /\ UNCHANGED <<fmt_builder, format, now, prev>>
    /\ UNCHANGED directive_vars
    /\ UNCHANGED log_vars
    /\ UNCHANGED writer_vars
    /\ UNCHANGED print_vars
    /\ UNCHANGED style_vars

\* The clock advances between two calls of the closure.
Tick ==
    /\ pass.n > 0
    /\ pass.n < MaxPasses
    /\ \E t \in Clock : t > now /\ now' = t
    /\ UNCHANGED <<fmt_builder, format, formatter_buf, pass, prev>>
    /\ UNCHANGED directive_vars
    /\ UNCHANGED log_vars
    /\ UNCHANGED writer_vars
    /\ UNCHANGED print_vars
    /\ UNCHANGED style_vars

InitFormat ==
    /\ fmt_builder = FmtBuilder_default
    /\ format = None
    /\ now = 0
    /\ formatter_buf = <<>>
    /\ pass = NoPass
    /\ prev = NoPass

FormatNext ==
    \/ \E timestamp \in BOOLEAN, nanos \in BOOLEAN, module_path \in BOOLEAN,
          level \in BOOLEAN, indent \in Indents :
          FmtBuilder_configure(timestamp, nanos, module_path, level, indent)
    \/ FmtBuilder_build
    \/ \E record \in Records : Format(record)
    \/ Format_again
    \/ Clear
    \/ Tick

\* --------------------------------------------- src/fmt.rs: Style, StyledValue

\* Formatter::style: the style shares the buffer of the formatter and takes
\* its write_style.
Formatter_style(write_style) == [write_style |-> write_style]

\* One operation on the buffer: set_color, the content write of the wrapped
\* value, or reset, with the bytes it wrote and whether it succeeded.  The
\* escape sequences of set_color and reset are one byte of the model each.
BufferOp(op, bytes, ok) == [op |-> op, bytes |-> bytes, ok |-> ok]

\* write_fmt returning at a failed content write, before the reset.
StyledValue_write_fmt_early_return(self, value, io) ==
    LET content == BufferOp("write", SubSeq(value, 1, io.written), io.write)
        set_color == BufferOp("set_color",
                              IF io.set_color THEN <<"<set_color>">> ELSE <<>>,
                              io.set_color)
        reset == BufferOp("reset",
                          IF io.reset THEN <<"<reset>">> ELSE <<>>, io.reset)
    IN  IF ~self.style.write_style
        THEN [ops |-> <<content>>, result |-> io.write]
        ELSE IF ~io.set_color
        THEN [ops |-> <<set_color>>, result |-> FALSE]
        ELSE IF ~io.write
        THEN [ops |-> <<set_color, content>>, result |-> FALSE]
        ELSE [ops |-> <<set_color, content, reset>>, result |-> io.reset]

\* write_fmt writing the style whatever write_style says.
StyledValue_write_fmt_always(self, value, io) ==
    LET content == BufferOp("write", SubSeq(value, 1, io.written), io.write)
        set_color == BufferOp("set_color",
                              IF io.set_color THEN <<"<set_color>">> ELSE <<>>,
                              io.set_color)
        reset == BufferOp("reset",
                          IF io.reset THEN <<"<reset>">> ELSE <<>>, io.reset)
    IN  IF ~io.set_color
        THEN [ops |-> <<set_color>>, result |-> FALSE]
        ELSE [ops |-> <<set_color, content, reset>>,
              result |-> io.write /\ io.reset]

\* write_fmt going on to the content write and the reset after a failed
\* set_color.
StyledValue_write_fmt_no_question_mark(self, value, io) ==
    LET content == BufferOp("write", SubSeq(value, 1, io.written), io.write)
        set_color == BufferOp("set_color",
                              IF io.set_color THEN <<"<set_color>">> ELSE <<>>,
                              io.set_color)
        reset == BufferOp("reset",
                          IF io.reset THEN <<"<reset>">> ELSE <<>>, io.reset)
    IN  IF ~self.style.write_style
        THEN [ops |-> <<content>>, result |-> io.write]
        ELSE [ops |-> <<set_color, content, reset>>,
              result |-> io.set_color /\ io.write /\ io.reset]

\* StyledValue::write_fmt on the given value; io tells whether set_color,
\* the content write f() and reset succeed and how many bytes of the value
\* f() wrote.  The result is the operations done in order and Ok or Err.
StyledValue_write_fmt(self, value, io) ==
    LET content == BufferOp("write", SubSeq(value, 1, io.written), io.write)
        set_color == BufferOp("set_color",
                              IF io.set_color THEN <<"<set_color>">> ELSE <<>>,
                              io.set_color)
        reset == BufferOp("reset",
                          IF io.reset THEN <<"<reset>">> ELSE <<>>, io.reset)
    IN  IF ~self.style.write_style
        THEN [ops |-> <<content>>, result |-> io.write]
        ELSE IF ~io.set_color
        THEN [ops |-> <<set_color>>, result |-> FALSE]
        ELSE [ops |-> <<set_color, content, reset>>,
              result |-> io.write /\ io.reset]

\* The bytes the operations leave in the buffer.
RECURSIVE Buffer_bytes(_)
Buffer_bytes(ops) ==
    IF ops = <<>> THEN <<>> ELSE Head(ops).bytes \o Buffer_bytes(Tail(ops))

\* The values wrapped in a style.
StyledValues == {<<"a">>, <<"b", "c">>}

\* What the buffer and the value's formatting can do: a successful content
\* write has written the whole value, a failed one any part of it.
IoOutcomes(value) ==
    {io \in [set_color : BOOLEAN, write : BOOLEAN,
             written : 0..Len(value), reset : BOOLEAN] :
        io.write => io.written = Len(value)}

NoStyled ==
    [n |-> 0, value |-> <<>>,
     io |-> [set_color |-> TRUE, write |-> TRUE, written |-> 0, reset |-> TRUE],
     ops |-> <<>>, result |-> TRUE]

\* Formatter::new and Formatter::style: a formatter that writes styles or
\* does not.
Formatter_new(write_style) ==
    /\ style = None
    /\ style' = Some(Formatter_style(write_style))
    /\ UNCHANGED <<styled, style_buf>>
    /\ UNCHANGED directive_vars
    /\ UNCHANGED log_vars
    /\ UNCHANGED writer_vars
    /\ UNCHANGED print_vars
    /\ UNCHANGED format_vars

\* A StyledValue of the style is formatted into the buffer.
StyledValue_fmt(value, io) ==
    /\ style # None
    /\ styled.n < MaxStyled
    /\ LET done == StyledValue_write_fmt([style |-> style[1]], value, io)
       IN  /\ styled' = [n |-> styled.n + 1, value |-> value, io |-> io,
                         ops |-> done.ops, result |-> done.result]
           /\ style_buf' = style_buf \o Buffer_bytes(done.ops)
    /\ UNCHANGED style
    /\ UNCHANGED directive_vars
    /\ UNCHANGED log_vars
    /\ UNCHANGED writer_vars
    /\ UNCHANGED print_vars
    /\ UNCHANGED format_vars

InitStyle ==
    /\ style = None
    /\ styled = NoStyled
    /\ style_buf = <<>>

StyleNext ==
    \/ \E write_style \in BOOLEAN : Formatter_new(write_style)
    \/ \E value \in StyledValues : \E io \in IoOutcomes(value) :
          StyledValue_fmt(value, io)

\* --------------------- src/fmt/writer/target.rs, buffer.rs: print of a record

\* The ways a target is written: WriteStdout and WriteStderr lock the stream,
\* PrintStdout and PrintStderr go through print! and eprint!, which lock the
\* stream for the whole call, Pipe locks the mutex around the pipe.
WritableTargets == {"Write", "Print", "Pipe"}

\* The threads that log through one writer.
Threads == {1, 2, 3}

\* buf.as_bytes(): the bytes of one formatted record.
RecordBytes == <<"r", "\n">>

\* The transport written without waiting for its lock.
lock_not_awaited(holder, t) == TRUE

\* stream.lock(), pipe.lock(), and the lock print! takes: the calling thread
\* goes on when no thread holds the transport, and waits otherwise.
lock_acquired(holder, t) == holder = None

IdleThread == [pc |-> "idle", k |-> 0, left |-> 0]

\* A builder made the writer of the given target.
Writer_target(kind) ==
    /\ writable_target = None
    /\ writable_target' = Some(kind)
    /\ UNCHANGED <<lock, thread, transport>>
    /\ UNCHANGED directive_vars
    /\ UNCHANGED log_vars
    /\ UNCHANGED writer_vars
    /\ UNCHANGED format_vars
    /\ UNCHANGED style_vars

\* print: the thread takes the lock of the transport for its next record.
print_lock(t) ==
    /\ writable_target # None
    /\ thread[t].pc = "idle"
    /\ thread[t].k < MaxPrints
    /\ lock_acquired(lock, t)
    /\ lock' = Some(t)
    /\ thread' = [thread EXCEPT ![t] = [pc |-> "write", k |-> @.k + 1,
                                        left |-> Len(RecordBytes)]]
    /\ UNCHANGED <<writable_target, transport>>
    /\ UNCHANGED directive_vars
    /\ UNCHANGED log_vars
    /\ UNCHANGED writer_vars
    /\ UNCHANGED format_vars
    /\ UNCHANGED style_vars

\* One write of write_all: the transport takes the next n bytes of the
\* record; after the last byte the thread goes on to flush.
print_write(t, n) ==
    /\ thread[t].pc = "write"
    /\ n \in 1..thread[t].left
    /\ LET done == Len(RecordBytes) - thread[t].left
       IN  transport' = transport \o
               [i \in 1..n |-> [t |-> t, k |-> thread[t].k, i |-> done + i,
                                byte |-> RecordBytes[done + i]]]
    /\ thread' = [thread EXCEPT ![t].left = @ - n,
                                ![t].pc = IF thread[t].left = n
                                          THEN "flush" ELSE "write"]
    /\ UNCHANGED <<writable_target, lock>>
    /\ UNCHANGED directive_vars
    /\ UNCHANGED log_vars
    /\ UNCHANGED writer_vars
    /\ UNCHANGED format_vars
    /\ UNCHANGED style_vars

\* stream.flush() succeeds, or print! returns: print is over and the guard
\* of the lock is dropped.
print_flush(t) ==
    /\ thread[t].pc = "flush"
    /\ lock' = IF lock = Some(t) THEN None ELSE lock
    /\ thread' = [thread EXCEPT ![t].pc = "idle"]
    /\ UNCHANGED <<writable_target, transport>>
    /\ UNCHANGED directive_vars
    /\ UNCHANGED log_vars
    /\ UNCHANGED writer_vars
    /\ UNCHANGED format_vars
    /\ UNCHANGED style_vars

\* write_all or flush fails: print returns the error (print! panics), the
\* guard of the lock is dropped, the rest of the record is not written.
print_error(t) ==
    /\ thread[t].pc \in {"write", "flush"}
    /\ lock' = IF lock = Some(t) THEN None ELSE lock
    /\ thread' = [thread EXCEPT ![t].pc = IF writable_target = Some("Print")
                                          THEN "panicked" ELSE "idle",
                                ![t].left = 0]
    /\ UNCHANGED <<writable_target, transport>>
    /\ UNCHANGED directive_vars
    /\ UNCHANGED log_vars
    /\ UNCHANGED writer_vars
    /\ UNCHANGED format_vars
    /\ UNCHANGED style_vars

InitPrint ==
    /\ writable_target = None
    /\ lock = None
    /\ thread = [t \in Threads |-> IdleThread]
    /\ transport = <<>>

PrintNext ==
    \/ \E kind \in WritableTargets : Writer_target(kind)
    \/ \E t \in Threads : print_lock(t)
    \/ \E t \in Threads, n \in 1..Len(RecordBytes) : print_write(t, n)
    \/ \E t \in Threads : print_flush(t)
    \/ \E t \in Threads : print_error(t)

\* ------------------------------------- src/fmt/writer/mod.rs: writer Builder

TargetTypes == {"Stdout", "Stderr", "Pipe"}

WriteStyles == {"Auto", "Always", "Never"}

\* writer::Builder::new()
WriterBuilder_new ==
    [target_type |-> "Stderr", write_style |-> "Auto", is_test |-> FALSE,
     built |-> FALSE]

\* The color_choice of a build that takes a pipe for the terminal stderr is.
color_choice_pipe_probed(write_style, target_type, is_stdout, is_stderr) ==
    IF write_style = "Auto"
    THEN IF (CASE target_type = "Stderr" -> is_stderr
               [] target_type = "Stdout" -> is_stdout
               [] target_type = "Pipe" -> is_stderr)
         THEN "Auto"
         ELSE "Never"
    ELSE write_style

\* The color_choice of Builder::build; is_stdout and is_stderr are what the
\* terminal probes of the two streams answer.
color_choice(write_style, target_type, is_stdout, is_stderr) ==
    IF write_style = "Auto"
    THEN IF (CASE target_type = "Stderr" -> is_stderr
               [] target_type = "Stdout" -> is_stdout
               [] target_type = "Pipe" -> FALSE)
         THEN "Auto"
         ELSE "Never"
    ELSE write_style

\* parse_write_style on the trimmed string.
parse_write_style_trimmed(s) ==
    CASE trim(s) = <<"a", "u", "t", "o">> -> "Auto"
      [] trim(s) = <<"a", "l", "w", "a", "y", "s">> -> "Always"
      [] trim(s) = <<"n", "e", "v", "e", "r">> -> "Never"
      [] OTHER -> "Auto"

\* parse_write_style: the three names match as they are written, every other
\* string gives WriteStyle::default().
parse_write_style(s) ==
    CASE s = <<"a", "u", "t", "o">> -> "Auto"
      [] s = <<"a", "l", "w", "a", "y", "s">> -> "Always"
      [] s = <<"n", "e", "v", "e", "r">> -> "Never"
      [] OTHER -> "Auto"

\* The strings given to parse_write_style.
WriteStyleSpecs ==
    {<<"a", "u", "t", "o">>, <<"a", "l", "w", "a", "y", "s">>,
     <<"n", "e", "v", "e", "r">>, <<>>, <<"N", "e", "v", "e", "r">>,
     <<"n", "e", "v", "e", "r", " ">>, <<"a", "l", "w", "a", "y">>,
     <<"t", "r", "u", "e">>}

\* Builder::target
WriterBuilder_target(target_type) ==
    /\ writer_builder' = [writer_builder EXCEPT !.target_type = target_type]
    /\ UNCHANGED <<tty, writer, style_spec>>
    /\ UNCHANGED directive_vars
    /\ UNCHANGED log_vars
    /\ UNCHANGED format_vars
    /\ UNCHANGED style_vars
    /\ UNCHANGED print_vars

\* Builder::write_style
WriterBuilder_write_style(write_style) ==
    /\ writer_builder' = [writer_builder EXCEPT !.write_style = write_style]
    /\ style_spec' = None
    /\ UNCHANGED <<tty, writer>>
    /\ UNCHANGED directive_vars
    /\ UNCHANGED log_vars
    /\ UNCHANGED format_vars
    /\ UNCHANGED style_vars
    /\ UNCHANGED print_vars

\* Builder::parse_write_style
WriterBuilder_parse_write_style(s) ==
    /\ writer_builder' = [writer_builder EXCEPT !.write_style = parse_write_style(s)]
    /\ style_spec' = Some(s)
    /\ UNCHANGED <<tty, writer>>
    /\ UNCHANGED directive_vars
    /\ UNCHANGED log_vars
    /\ UNCHANGED format_vars
    /\ UNCHANGED style_vars
    /\ UNCHANGED print_vars

\* Builder::is_test
WriterBuilder_is_test(is_test) ==
    /\ writer_builder' = [writer_builder EXCEPT !.is_test = is_test]
    /\ UNCHANGED <<tty, writer, style_spec>>
    /\ UNCHANGED directive_vars
    /\ UNCHANGED log_vars
    /\ UNCHANGED format_vars
    /\ UNCHANGED style_vars
    /\ UNCHANGED print_vars

\* Builder::build: the writer holds the BufferWriter made with the
\* color_choice and the write_style as configured; probed keeps what the
\* terminal probes answered at that time.
WriterBuilder_build ==
    /\ ~writer_builder.built
    /\ writer_builder' = [writer_builder EXCEPT !.built = TRUE]
    /\ writer' = Some(
           [inner |-> [target |-> writer_builder.target_type,
                       is_test |-> writer_builder.is_test,
                       write_style |-> color_choice(writer_builder.write_style,
                                                    writer_builder.target_type,
                                                    tty.stdout, tty.stderr)],
            write_style |-> writer_builder.write_style,
            probed |-> tty])
    /\ UNCHANGED <<tty, style_spec>>
    /\ UNCHANGED directive_vars
    /\ UNCHANGED log_vars
    /\ UNCHANGED format_vars
    /\ UNCHANGED style_vars
    /\ UNCHANGED print_vars

\* A stream of the process is attached to a terminal or redirected.
Tty_change(stdout, stderr) ==
    /\ tty' = [stdout |-> stdout, stderr |-> stderr]
    /\ UNCHANGED <<writer_builder, writer, style_spec>>
    /\ UNCHANGED directive_vars
    /\ UNCHANGED log_vars
    /\ UNCHANGED format_vars
    /\ UNCHANGED style_vars
    /\ UNCHANGED print_vars

InitWriter ==
    /\ writer_builder = WriterBuilder_new
    /\ tty = [stdout |-> FALSE, stderr |-> FALSE]
    /\ writer = None
    /\ style_spec = None

WriterNext ==
    \/ \E target_type \in TargetTypes : WriterBuilder_target(target_type)
    \/ \E write_style \in WriteStyles : WriterBuilder_write_style(write_style)
    \/ \E s \in WriteStyleSpecs : WriterBuilder_parse_write_style(s)
    \/ \E is_test \in BOOLEAN : WriterBuilder_is_test(is_test)
    \/ WriterBuilder_build
    \/ \E stdout \in BOOLEAN, stderr \in BOOLEAN : Tty_change(stdout, stderr)

\* ----------------------------------------- src/lib.rs: the global logger

\* The threads that call try_init and init, and the levels of their builders.
Callers == {1, 2}

InitLevels == {Error, Debug}

\* log::set_boxed_logger(make_logger): with no logger installed the logger
\* of make_logger is installed, with the maximum level make_logger has set;
\* with one installed make_logger is not called and the result is
\* Err(SetLoggerError).
set_boxed_logger(slot, max_level, logger, level) ==
    IF slot = None
    THEN [logger |-> Some(logger), max_level |-> level, result |-> "Ok"]
    ELSE [logger |-> slot, max_level |-> max_level, result |-> "Err"]

\* Builder::try_init of a builder with the one directive {None, level}, as
\* the n-th call: the closure builds the logger and sets the maximum level
\* to logger.filter().
try_init(slot, max_level, n, level) ==
    LET logger == [by |-> n, directives |-> <<Directive(None, level)>>]
    IN  set_boxed_logger(slot, max_level, logger, Filter_filter(logger.directives))

\* Builder::try_init called by the thread t.
Builder_try_init(t, level) ==
    /\ alive[t]
    /\ Len(init_calls) < MaxInits
    /\ LET n == Len(init_calls) + 1
           set == try_init(global_logger, max_log_level, n, level)
       IN  /\ global_logger' = set.logger
           /\ max_log_level' = set.max_level
           /\ init_calls' = Append(init_calls,
                  [op |-> "try_init", t |-> t, level |-> level, result |-> set.result])
    /\ UNCHANGED alive
    /\ UNCHANGED directive_vars
    /\ UNCHANGED <<format_vars, style_vars, print_vars, writer_vars>>
    /\ UNCHANGED wrap_vars

\* Builder::init that drops the result of try_init.
Builder_init_ignoring_error(t, level) ==
    /\ alive[t]
    /\ Len(init_calls) < MaxInits
    /\ LET n == Len(init_calls) + 1
           set == try_init(global_logger, max_log_level, n, level)
       IN  /\ global_logger' = set.logger
           /\ max_log_level' = set.max_level
           /\ init_calls' = Append(init_calls,
                  [op |-> "init", t |-> t, level |-> level, result |-> set.result])
    /\ UNCHANGED alive
    /\ UNCHANGED directive_vars
    /\ UNCHANGED <<format_vars, style_vars, print_vars, writer_vars>>
    /\ UNCHANGED wrap_vars

\* Builder::init called by the thread t: self.try_init().unwrap(), which
\* panics on Err and unwinds the thread.
Builder_init(t, level) ==
    /\ alive[t]
    /\ Len(init_calls) < MaxInits
    /\ LET n == Len(init_calls) + 1
           set == try_init(global_logger, max_log_level, n, level)
       IN  /\ global_logger' = set.logger
           /\ max_log_level' = set.max_level
           /\ init_calls' = Append(init_calls,
                  [op |-> "init", t |-> t, level |-> level,
                   result |-> IF set.result = "Ok" THEN "Ok" ELSE "panic"])
           /\ alive' = [alive EXCEPT ![t] = (set.result = "Ok")]
    /\ UNCHANGED directive_vars
    /\ UNCHANGED <<format_vars, style_vars, print_vars, writer_vars>>
    /\ UNCHANGED wrap_vars

InitLogger ==
    /\ global_logger = None
    /\ max_log_level = Off
    /\ init_calls = <<>>
    /\ alive = [t \in Callers |-> TRUE]

LoggerNext ==
    \/ \E t \in Callers, level \in InitLevels : Builder_try_init(t, level)
    \/ \E t \in Callers, level \in InitLevels : Builder_init(t, level)

\* ------------------------- env_filter/src/filtered_log.rs: FilteredLog

\* The filters given to FilteredLog::new.
WrappedFilters ==
    {[directives |-> <<Directive(None, Error)>>, filter |-> None],
     [directives |-> <<Directive(None, Off), Directive(Some(<<"a", "b">>), Debug)>>,
      filter |-> Some(<<"b">>)]}

\* What the wrapped log is handed: the call and its record or metadata.
InnerCall(op, level, target, args) ==
    [op |-> op, level |-> level, target |-> target, args |-> args]

NoOuter ==
    [n |-> 0, op |-> "none", level |-> Error, target |-> <<>>, args |-> <<>>,
     answer |-> FALSE, result |-> FALSE]

\* FilteredLog::new(filter, log): the wrapped log has received nothing.
FilteredLog_new(filter) ==
    /\ filtered_log = None
    /\ filtered_log' = Some([filter |-> filter])
    /\ UNCHANGED <<inner_calls, outer>>
    /\ UNCHANGED directive_vars
    /\ UNCHANGED <<format_vars, style_vars, print_vars, writer_vars>>
    /\ UNCHANGED init_vars

\* FilteredLog::enabled(metadata); answer is what the wrapped log says when
\* it is asked, which it is only after the filter has said yes.
FilteredLog_enabled(level, target, answer) ==
    /\ filtered_log # None
    /\ outer.n < MaxLogCalls
    /\ LET on == enabled(filtered_log[1].filter.directives, level, target)
       IN  /\ ~on => ~answer
           /\ inner_calls' = IF on
                             THEN Append(inner_calls, InnerCall("enabled", level, target, <<>>))
                             ELSE inner_calls
           /\ outer' = [n |-> outer.n + 1, op |-> "enabled", level |-> level,
                        target |-> target, args |-> <<>>,
                        answer |-> answer, result |-> on /\ answer]
    /\ UNCHANGED filtered_log
    /\ UNCHANGED directive_vars
    /\ UNCHANGED <<format_vars, style_vars, print_vars, writer_vars>>
    /\ UNCHANGED init_vars

\* FilteredLog::log forwarding every record the directives enable.
FilteredLog_log_unfiltered(level, target, args) ==
    /\ filtered_log # None
    /\ outer.n < MaxLogCalls
    /\ LET f == filtered_log[1].filter
           m == enabled(f.directives, level, target)
       IN  /\ inner_calls' = IF m
                             THEN Append(inner_calls, InnerCall("log", level, target, args))
                             ELSE inner_calls
           /\ outer' = [n |-> outer.n + 1, op |-> "log", level |-> level,
                        target |-> target, args |-> args,
                        answer |-> FALSE, result |-> m]
    /\ UNCHANGED filtered_log
    /\ UNCHANGED directive_vars
    /\ UNCHANGED <<format_vars, style_vars, print_vars, writer_vars>>
    /\ UNCHANGED init_vars

\* FilteredLog::log(record)
FilteredLog_log(level, target, args) ==
    /\ filtered_log # None
    /\ outer.n < MaxLogCalls
    /\ LET f == filtered_log[1].filter
           m == matches(f.directives, f.filter, level, target, args).result
       IN  /\ inner_calls' = IF m
                             THEN Append(inner_calls, InnerCall("log", level, target, args))
                             ELSE inner_calls
           /\ outer' = [n |-> outer.n + 1, op |-> "log", level |-> level,
                        target |-> target, args |-> args,
                        answer |-> FALSE, result |-> m]
    /\ UNCHANGED filtered_log
    /\ UNCHANGED directive_vars
    /\ UNCHANGED <<format_vars, style_vars, print_vars, writer_vars>>
    /\ UNCHANGED init_vars

\* FilteredLog::flush()
FilteredLog_flush ==
    /\ filtered_log # None
    /\ outer.n < MaxLogCalls
    /\ inner_calls' = Append(inner_calls, InnerCall("flush", Error, <<>>, <<>>))
    /\ outer' = [n |-> outer.n + 1, op |-> "flush", level |-> Error,
                 target |-> <<>>, args |-> <<>>,
                 answer |-> FALSE, result |-> FALSE]
    /\ UNCHANGED filtered_log
    /\ UNCHANGED directive_vars
    /\ UNCHANGED <<format_vars, style_vars, print_vars, writer_vars>>
    /\ UNCHANGED init_vars

InitFilteredLog ==
    /\ filtered_log = None
    /\ inner_calls = <<>>
    /\ outer = NoOuter

FilteredLogNext ==
    \/ \E filter \in WrappedFilters : FilteredLog_new(filter)
    \/ \E level \in QueryLevels, target \in Targets, answer \in BOOLEAN :
          FilteredLog_enabled(level, target, answer)
    \/ \E level \in QueryLevels, target \in Targets, args \in Messages :
          FilteredLog_log(level, target, args)
    \/ FilteredLog_flush

Init ==
    /\ InitParser
    /\ InitFilter
    /\ InitFormat
    /\ InitStyle
    /\ InitPrint
    /\ InitWriter
    /\ InitLogger
    /\ InitFilteredLog

ParserNext ==
    \/ \E f \in Fragments : Compose(f)
    \/ Parse

ParserSpec == Init /\ [][ParserNext]_vars

Next ==
    \/ \E module \in Modules, level \in Thresholds : Builder_filter(module, level)
    \/ \E filters \in SpecInputs : Builder_parse(filters)
    \/ Builder_build
    \/ \E level \in QueryLevels, target \in Targets : Filter_enabled(level, target)
    \/ \E level \in QueryLevels, target \in Targets, args \in Messages :
          Filter_matches(level, target, args)
    \/ Filter_filter_called

Spec == Init /\ [][Next]_vars

FormatSpec == Init /\ [][FormatNext]_vars

StyleSpec == Init /\ [][StyleNext]_vars

PrintSpec == Init /\ [][PrintNext]_vars

WriterSpec == Init /\ [][WriterNext]_vars

LoggerSpec == Init /\ [][LoggerNext]_vars

FilteredLogSpec == Init /\ [][FilteredLogNext]_vars

\* ------------------------------------------------ what the parser must do

\* Number of occurrences of the character c in s.
Count(s, c) == Cardinality({i \in 1..Len(s) : s[i] = c})

\* s without its i-th element.
RemoveAt(s, i) == SubSeq(s, 1, i - 1) \o SubSeq(s, i + 1, Len(s))

\* The pieces put together again, a separator between two of them.
RECURSIVE join(_, _)
join(pieces, sep) ==
    IF pieces = <<>> THEN <<>>
    ELSE IF Len(pieces) = 1 THEN pieces[1]
    ELSE pieces[1] \o <<sep>> \o join(Tail(pieces), sep)

\* The string that was parsed, its segments and the pieces of the first one.
SpecStr == concat(spec)

Segments == split(SpecStr, "/")

Pieces == split(Segments[1], ",")

\* The string with the given pieces and the content-filter segment of SpecStr.
WithPieces(pieces) ==
    join(<<join(pieces, ",")>> \o Tail(Segments), "/")

\* The level a string names in some letter case, as a set of at most one level.
LevelNamed(s) ==
    {l \in LevelFilters :
        /\ Len(s) = Len(LOG_LEVEL_NAMES[l + 1])
        /\ \A i \in 1..Len(s) :
              to_ascii_lowercase(s[i]) = LOG_LEVEL_NAMES[l + 1][i]}

\* A piece with more than one '='.
ManyEquals(p) == Count(trim(p), "=") > 1

\* A piece name=level whose level is not empty and names no level.
BadLevel(p) ==
    /\ Count(trim(p), "=") = 1
    /\ LET level == trim(split(trim(p), "=")[2])
       IN  level # <<>> /\ LevelNamed(level) = {}

FailingPiece(p) == ManyEquals(p) \/ BadLevel(p)

\* The errors recorded for pieces of the first segment.
PieceErrors(r) == SelectSeq(r.errors, LAMBDA e : e.msg = "invalid logging spec")

\* C6: a spec with more than one '/' yields no directives, no content filter
\* and exactly one error, whatever its first segment holds.
C6_TooManySlashes ==
    (pc = "parsed" /\ Count(SpecStr, "/") > 1) =>
        /\ result.directives = <<>>
        /\ result.filter = None
        /\ Len(result.errors) = 1

\* A spec with two '/' whose first segment alone holds a valid directive.
C6_Witness ==
    /\ pc = "parsed"
    /\ Count(SpecStr, "/") > 1
    /\ Len(Pieces) >= 1
    /\ \E i \in 1..Len(Pieces) :
          trim(Pieces[i]) # <<>> /\ ~FailingPiece(Pieces[i])
    /\ Len(result.errors) = 1

\* C7: each piece with more than one '=' or with a non-empty unparseable
\* level records exactly one error and no directive, and the rest of the spec
\* is parsed as if that piece were absent: the same directives, the same
\* content filter, and the same errors but the one of that piece.
C7_FailingPieceIsLocal ==
    (pc = "parsed" /\ Count(SpecStr, "/") <= 1) =>
        /\ Len(PieceErrors(result)) =
              Cardinality({i \in 1..Len(Pieces) : FailingPiece(Pieces[i])})
        /\ \A i \in 1..Len(Pieces) :
              FailingPiece(Pieces[i]) =>
                  LET k == Cardinality({j \in 1..i : FailingPiece(Pieces[j])})
                      without == parse_spec(WithPieces(RemoveAt(Pieces, i)))
                      alone == parse_spec(Pieces[i])
                  IN  /\ alone.directives = <<>>
                      /\ Len(alone.errors) = 1
                      /\ without.directives = result.directives
                      /\ without.filter = result.filter
                      /\ without.errors = RemoveAt(result.errors, k)

\* A failing piece with two '=' followed by a piece that yields a directive.
C7_Witness ==
    /\ pc = "parsed"
    /\ Count(SpecStr, "/") = 0
    /\ Len(Pieces) >= 2
    /\ ManyEquals(Pieces[1])
    /\ Len(result.errors) = 1
    /\ Len(result.directives) >= 1

\* The directive C8 names for a trimmed, non-empty piece that has no '=' or
\* is name= with an empty level.
BareDirective(p) ==
    IF Count(p, "=") = 0
    THEN IF LevelNamed(p) # {}
         THEN Directive(None, CHOOSE l \in LevelNamed(p) : TRUE)
         ELSE Directive(Some(p), Trace)
    ELSE Directive(Some(split(p, "=")[1]), Trace)

\* A piece C8 is about: no '=', or name= with an empty level.
BarePiece(p) ==
    \/ Count(trim(p), "=") = 0
    \/ Count(trim(p), "=") = 1 /\ trim(split(trim(p), "=")[2]) = <<>>

RECURSIVE BareDirectives(_)
BareDirectives(pieces) ==
    IF pieces = <<>> THEN <<>>
    ELSE (IF trim(Head(pieces)) = <<>> THEN <<>>
          ELSE <<BareDirective(trim(Head(pieces)))>>)
         \o BareDirectives(Tail(pieces))

\* C8: a piece without '=' that names a level in any letter case yields a
\* global directive of that level; a piece without '=' that names no level,
\* and a piece name= with an empty level, yield {name, Trace}; no error is
\* recorded for them.
C8_BarePieces ==
    (/\ pc = "parsed"
     /\ Count(SpecStr, "/") <= 1
     /\ \A i \in 1..Len(Pieces) : BarePiece(Pieces[i])) =>
        /\ result.directives = BareDirectives(Pieces)
        /\ PieceErrors(result) = <<>>

\* A level in mixed case, a name and a name= piece in one spec.
C8_Witness ==
    /\ pc = "parsed"
    /\ Count(SpecStr, "/") = 0
    /\ \E i, j \in 1..Len(Pieces) :
          /\ trim(Pieces[i]) = <<"w", "A", "r", "N">>
          /\ Count(Pieces[j], "=") = 1
    /\ \A i \in 1..Len(Pieces) : BarePiece(Pieces[i])
    /\ Len(result.directives) = 2
    /\ result.errors = <<>>

\* The pieces trimmed, the empty ones dropped.
RECURSIVE Normalised(_)
Normalised(pieces) ==
    IF pieces = <<>> THEN <<>>
    ELSE (IF trim(Head(pieces)) = <<>> THEN <<>> ELSE <<trim(Head(pieces))>>)
         \o Normalised(Tail(pieces))

\* C9: every piece is trimmed and a piece empty after trimming is skipped
\* without an error: the result is that of the spec with its pieces trimmed
\* and its blank pieces removed, each remaining piece accounts for one
\* directive or one error, and a spec of whitespace and commas only yields
\* nothing at all.
C9_BlankPiecesSkipped ==
    (pc = "parsed" /\ Count(SpecStr, "/") <= 1) =>
        /\ result = parse_spec(WithPieces(Normalised(Pieces)))
        /\ Len(result.directives) + Len(PieceErrors(result)) = Len(Normalised(Pieces))
        /\ (\A i \in 1..Len(SpecStr) : SpecStr[i] \in Whitespace \cup {","}) =>
              result = ParseResult_default

\* A spec of commas and whitespace, with both, was parsed.
C9_Witness ==
    /\ pc = "parsed"
    /\ Len(SpecStr) >= 3
    /\ \A i \in 1..Len(SpecStr) : SpecStr[i] \in Whitespace \cup {","}
    /\ \E i, j \in 1..Len(SpecStr) : SpecStr[i] = "," /\ SpecStr[j] = " "
    /\ result = ParseResult_default

\* C10: a content filter that does not compile records one error and leaves
\* the filter absent while the directives (and errors) of the first segment
\* stay as parsed; a content filter that compiles is set whatever errors the
\* pieces of the first segment recorded.
C10_FilterFailureIsLocal ==
    (pc = "parsed" /\ Count(SpecStr, "/") = 1) =>
        LET mods == parse_spec(Segments[1])
            compiled == FilterOp_new(Segments[2])
        IN  /\ result.directives = mods.directives
            /\ ~compiled.ok =>
                  /\ result.filter = None
                  /\ Len(result.errors) = Len(mods.errors) + 1
                  /\ SubSeq(result.errors, 1, Len(mods.errors)) = mods.errors
                  /\ result.errors[Len(result.errors)].msg = "invalid regex filter"
            /\ compiled.ok =>
                  /\ result.filter = Some(Segments[2])
                  /\ result.errors = mods.errors

\* A pattern that does not compile after a segment that yields a directive.
C10_Witness ==
    /\ pc = "parsed"
    /\ Count(SpecStr, "/") = 1
    /\ ~FilterOp_new(Segments[2]).ok
    /\ result.directives # <<>>
    /\ result.filter = None
    /\ Len(result.errors) = 1

\* ------------------------------------------------ what the filter must do

\* name is a prefix of target.
IsPrefix(name, target) ==
    /\ Len(name) <= Len(target)
    /\ \A i \in 1..Len(name) : name[i] = target[i]

\* The directive applies to the target: it is global or its name is a prefix.
Applies(d, target) == d.name = None \/ IsPrefix(d.name[1], target)

\* A's name is a proper prefix of B's name, both being named.
ProperPrefix(A, B) ==
    /\ A.name # None
    /\ B.name # None
    /\ IsPrefix(A.name[1], B.name[1])
    /\ Len(A.name[1]) < Len(B.name[1])

\* The positions, in the order the directives were added, of those that
\* apply to the target.
Applying(target) == {k \in 1..Len(added) : Applies(added[k], target)}

\* The position of the directive with the longest name among those that
\* apply to the target, the one added last among those of that length.
Longest(target) ==
    CHOOSE k \in Applying(target) :
        \A m \in Applying(target) :
            \/ name_len(added[m]) < name_len(added[k])
            \/ name_len(added[m]) = name_len(added[k]) /\ m <= k

\* C1 as stated: for directives A and B of the built filter, A's name a
\* proper prefix of B's, and a target that starts with B's name, enabled is
\* decided by B's threshold.
C1_Original ==
    (built /\ query.op = "enabled") =>
        \A i, j \in 1..Len(filter_directives) :
            LET A == filter_directives[i]
                B == filter_directives[j]
            IN  (ProperPrefix(A, B) /\ IsPrefix(B.name[1], query.target)) =>
                    query.result = (query.level <= B.level)

\* C1 as amended: for directives A and B given to the builder in either
\* order, A's name a proper prefix of B's, and a target that starts with B's
\* name, enabled is decided by the threshold of the directive with the
\* longest name that is a prefix of the target, the last added among those of
\* that length; this is B unless another directive at least as long as B
\* applies to the target, and it is never A.
C1_LongestMatchDecides ==
    (built /\ query.op = "enabled") =>
        \A i, j \in 1..Len(added) :
            LET A == added[i]
                B == added[j]
            IN  (ProperPrefix(A, B) /\ IsPrefix(B.name[1], query.target)) =>
                    /\ query.result =
                          (query.level <= added[Longest(query.target)].level)
                    /\ Longest(query.target) # i
                    /\ (\A k \in Applying(query.target) \ {j} :
                            name_len(added[k]) < name_len(B)) =>
                          query.result = (query.level <= B.level)

\* B was added before A, their thresholds differ at the level asked, and B's
\* decided.
C1_Witness ==
    /\ built
    /\ query.op = "enabled"
    /\ Len(added) = 2
    /\ ProperPrefix(added[2], added[1])
    /\ IsPrefix(added[1].name[1], query.target)
    /\ (query.level <= added[1].level) # (query.level <= added[2].level)
    /\ query.result = (query.level <= added[1].level)

\* The positions in the built filter of the directives that apply.
Selectable(target) ==
    {k \in 1..Len(filter_directives) : Applies(filter_directives[k], target)}

\* The directive selected for the target: the last of the built filter that
\* applies to it.
Selected(target) ==
    filter_directives[CHOOSE k \in Selectable(target) :
                          \A m \in Selectable(target) : m <= k]

C3_NoMatchDisabled ==
    (built /\ query.op = "enabled") =>
        ((\A k \in 1..Len(filter_directives) :
              /\ filter_directives[k].name # None
              /\ ~IsPrefix(filter_directives[k].name[1], query.target))
         => ~query.result)

\* A filter of named directives that would allow the level, none of them a
\* prefix of the target.
C3_Witness ==
    /\ built
    /\ query.op = "enabled"
    /\ Len(filter_directives) >= 2
    /\ \A k \in 1..Len(filter_directives) :
          /\ filter_directives[k].name # None
          /\ ~IsPrefix(filter_directives[k].name[1], query.target)
          /\ query.level <= filter_directives[k].level
    /\ ~query.result

\* A string from which no directive is to come: empty, blank, or every piece
\* of it malformed.
NoDirectiveSpec(s) ==
    \/ Count(s, "/") > 1
    \/ \A i \in 1..Len(split(split(s, "/")[1], ",")) :
          LET piece == split(split(s, "/")[1], ",")[i]
          IN  trim(piece) = <<>> \/ FailingPiece(piece)

\* s and t hold the same directives, each as many times.
SameDirectives(s, t) ==
    /\ Len(s) = Len(t)
    /\ \A k \in 1..Len(s) :
          Cardinality({m \in 1..Len(s) : s[m] = s[k]}) =
          Cardinality({m \in 1..Len(t) : t[m] = s[k]})

\* C4: build yields the single directive {None, Error} when the builder had
\* no filter() call and only strings that are empty, blank or wholly
\* malformed to parse, and otherwise exactly the directives added, so that a
\* lone global Off directive disables every record.
C4_DefaultDirective ==
    built =>
        /\ (\A c \in 1..Len(calls) :
               calls[c].op = "parse" /\ NoDirectiveSpec(calls[c].filters))
           => filter_directives = <<Directive(None, Error)>>
        /\ added # <<>> => SameDirectives(filter_directives, added)
        /\ (filter_directives = <<Directive(None, Off)>> /\ query.op # "none")
           => ~query.result

\* C5: matches is true exactly when enabled is true and no content filter is
\* set or the content filter matches the message; when enabled is false the
\* content filter is not consulted.
C5_MatchesIsEnabledAndContent ==
    (built /\ query.op = "matches") =>
        LET on == enabled(filter_directives, query.level, query.target)
        IN  /\ query.result <=>
                  /\ on
                  /\ filter_filter = None \/ is_match(filter_filter[1], query.args)
            /\ ~on => ~query.consulted /\ ~query.result

\* An enabled record whose message the content filter rejects.
C5_Witness ==
    /\ built
    /\ query.op = "matches"
    /\ enabled(filter_directives, query.level, query.target)
    /\ filter_filter # None
    /\ ~is_match(filter_filter[1], query.args)
    /\ query.consulted
    /\ ~query.result

\* ---------------------------------------------- what the formatter must do

\* The switches the format closure was built with.
Switches == format[1]

\* The message of the last formatted record.
Message == concat(pass.record.args)

\* The last call of the closure wrote into an empty buffer.
Formatted == pass.n > 0 /\ pass.fresh

\* The header fields of the last record in writing order: the timestamp, the
\* level name filled with spaces to five characters, the module path.
HeaderFields ==
    (IF Switches.default_format_timestamp
     THEN <<IF Switches.default_format_timestamp_nanos
            THEN PreciseTimestamp_fmt(pass.now)
            ELSE Timestamp_fmt(pass.now)>>
     ELSE <<>>)
    \o (IF Switches.default_format_level
        THEN LET name == Level_fmt(pass.record.level)
             IN  <<name \o [i \in 1..(5 - Len(name)) |-> " "]>>
        ELSE <<>>)
    \o (IF Switches.default_format_module_path /\ pass.record.module_path # None
        THEN <<pass.record.module_path[1]>>
        ELSE <<>>)

\* The header of the last record.
Header ==
    IF HeaderFields = <<>> THEN <<>>
    ELSE <<"[">> \o join(HeaderFields, " ") \o <<"]", " ">>

\* The message up to its first newline.
FirstLine == split(Message, "\n")[1]

\* C11: a formatted record starts with the header and goes on with the
\* first line of the message; the header is empty when no field is written
\* and is otherwise "[", the written fields in the order timestamp, level
\* filled to five characters, module path, joined by single spaces, then
\* "]" and a space.
C11_Header ==
    Formatted => IsPrefix(Header \o FirstLine \o <<"\n">>, pass.out)

C11_Witness ==
    /\ Formatted
    /\ Len(HeaderFields) = 3
    /\ pass.record.level = Info
    /\ FirstLine # <<>>
    /\ IsPrefix(Header \o FirstLine \o <<"\n">>, pass.out)

\* The string s with ins put after each of its newlines.
RECURSIVE AfterNewlines(_, _)
AfterNewlines(s, ins) ==
    IF s = <<>> THEN <<>>
    ELSE IF Head(s) = "\n" THEN <<"\n">> \o ins \o AfterNewlines(Tail(s), ins)
    ELSE <<Head(s)>> \o AfterNewlines(Tail(s), ins)

\* n spaces, the bar and one space.
Bar(n) == [i \in 1..n |-> " "] \o <<"|", " ">>

\* C12: with Indent::Spaces(n) the record is the header, the message with
\* n spaces, "|" and a space put after every newline, and the final newline,
\* however the message is split over the write calls.
C12_SpacesIndent ==
    (Formatted /\ Switches.default_format_indent.kind = "Spaces")
        => pass.out = Header
                      \o AfterNewlines(Message, Bar(Switches.default_format_indent.n))
                      \o <<"\n">>

C12_Witness ==
    /\ Formatted
    /\ Switches.default_format_indent = Indent_Spaces(2)
    /\ Len(pass.record.args) = 2
    /\ Message = <<"\n", "\n">>
    /\ pass.out = Header \o <<"\n", " ", " ", "|", " ", "\n", " ", " ", "|", " ", "\n">>

\* The number of characters of the header of the last record.
HeaderWidth == Len(Header)

\* C13: with Indent::Auto every newline of the message is followed by
\* max(0, W - 2) spaces, "|" and a space, W being the number of characters
\* of the header, which is also the value of the header width counter.
C13_AutoIndent ==
    (Formatted /\ Switches.default_format_indent.kind = "Auto")
        => /\ pass.count = HeaderWidth
           /\ pass.out = Header
                         \o AfterNewlines(Message,
                                Bar(IF HeaderWidth < 2 THEN 0 ELSE HeaderWidth - 2))
                         \o <<"\n">>

\* C14: with Indent::RepeatHeader the record is the header, the message
\* with the same complete header put after every newline, and the final
\* newline; when no header field is written nothing is put there.
C14_RepeatHeader ==
    (Formatted /\ Switches.default_format_indent.kind = "RepeatHeader")
        => pass.out = Header \o AfterNewlines(Message, Header) \o <<"\n">>

C14_Witness ==
    /\ Formatted
    /\ Switches.default_format_indent = Indent_RepeatHeader
    /\ Len(HeaderFields) = 3
    /\ Message = <<"a", "\n">>
    /\ pass.out = Header \o <<"a", "\n">> \o Header \o <<"\n">>

\* The bodies the indent strategy of the last record allows for its message.
Bodies ==
    LET indent == Switches.default_format_indent
    IN  CASE indent.kind = "None" -> {Message}
          [] indent.kind = "Spaces" -> {AfterNewlines(Message, Bar(indent.n))}
          [] indent.kind = "Auto" ->
                 {AfterNewlines(Message, Bar(n)) : n \in 0..pass.count}
          [] indent.kind = "RepeatHeader" -> {AfterNewlines(Message, Header)}

\* C15: whatever the indent strategy, a formatted record is the header, the
\* body and one newline: the newlines of the message are all kept and one
\* terminator is appended; with Indent::None the body is the message.
C15_OneTerminator ==
    Formatted => \E body \in Bodies : pass.out = Header \o body \o <<"\n">>

C15_Witness ==
    /\ Formatted
    /\ Switches.default_format_indent = Indent_None
    /\ HeaderFields # <<>>
    /\ Message = <<"\n", "\n">>
    /\ pass.out = Header \o <<"\n", "\n", "\n">>

\* The last two calls of the closure formatted the same record, the first
\* into an empty buffer that was cleared before the second, and the clock
\* stood still in between unless no timestamp is written.
FormattedTwice ==
    /\ pass.n >= 2
    /\ prev.fresh
    /\ prev.cleared
    /\ pass.record = prev.record
    /\ (pass.now = prev.now \/ ~Switches.default_format_timestamp)

StyledOn == styled.n > 0 /\ style[1].write_style

StyledOff == styled.n > 0 /\ ~style[1].write_style

\* The names of the operations of the last styled value, in order.
OpNames == [i \in 1..Len(styled.ops) |-> styled.ops[i].op]

\* C17: with styles on, a styled value does set_color first; once that has
\* succeeded it does the content write and then reset, one time each and in
\* that order, whether the content write succeeded or failed, and the result
\* is an error exactly when the content write or the reset failed.
C17_SetWriteReset ==
    StyledOn
        => /\ OpNames # <<>>
           /\ OpNames[1] = "set_color"
           /\ styled.ops[1].ok
                  => /\ OpNames = <<"set_color", "write", "reset">>
                     /\ styled.result = (styled.ops[2].ok /\ styled.ops[3].ok)

C17_Witness ==
    /\ StyledOn
    /\ OpNames = <<"set_color", "write", "reset">>
    /\ styled.ops[1].ok
    /\ ~styled.ops[2].ok
    /\ styled.ops[3].ok
    /\ ~styled.result

\* C18: with styles off, a styled value does the content write of the value
\* and nothing else: no set_color, no reset; its result is that of the
\* content write, and a content write that succeeded left the value's bytes
\* in the buffer.
C18_PlainWhenOff ==
    StyledOff
        => /\ OpNames = <<"write">>
           /\ styled.result = styled.io.write
           /\ styled.result => Buffer_bytes(styled.ops) = styled.value

C18_Witness ==
    /\ StyledOff
    /\ styled.value = <<"b", "c">>
    /\ styled.result
    /\ style_buf = <<"b", "c">>

\* ---------------------------------------------- what print must guarantee

\* The thread is inside print, between taking the lock and dropping it.
InPrint(t) == thread[t].pc \in {"write", "flush"}

\* C19: threads printing to one target exclude each other from the first
\* byte of a record to its flush: one thread at most is inside print and it
\* holds the lock, and in the transport every byte of a record but its first
\* directly follows the byte before it of the same record, so that no byte
\* of another record lies between them; each byte arrives once.
C19_NoInterleaving ==
    /\ \A t, u \in Threads : (InPrint(t) /\ InPrint(u)) => t = u
    /\ \A t \in Threads : InPrint(t) => lock = Some(t)
    /\ \A p \in 1..Len(transport) :
          transport[p].i > 1
              => /\ p > 1
                 /\ transport[p - 1].t = transport[p].t
                 /\ transport[p - 1].k = transport[p].k
                 /\ transport[p - 1].i = transport[p].i - 1
    /\ \A p, q \in 1..Len(transport) :
          (/\ transport[p].t = transport[q].t
           /\ transport[p].k = transport[q].k
           /\ transport[p].i = transport[q].i) => p = q

\* The records of two threads arrived whole, the later thread's first, while
\* a third thread is printing.
C19_Witness ==
    /\ Len(transport) >= 5
    /\ transport[1].t = 2
    /\ transport[2].t = 2
    /\ transport[3].t = 1
    /\ transport[4].t = 1
    /\ transport[5].t = 3
    /\ InPrint(3)
    /\ lock = Some(3)

\* ------------------------------------------ what building a writer must do

\* The write style the built writer works with: the one its BufferWriter
\* was made with.
Resolved == writer[1].inner.write_style

\* The terminal probe of the writer's own stream was true when it was built.
ProbedTerminal ==
    \/ writer[1].inner.target = "Stdout" /\ writer[1].probed.stdout
    \/ writer[1].inner.target = "Stderr" /\ writer[1].probed.stderr

\* The resolution of the configured write style of the built writer.
ResolvedAsConfigured ==
    writer # None
        => /\ writer[1].write_style \in {"Always", "Never"}
                  => Resolved = writer[1].write_style
           /\ writer[1].write_style = "Auto"
                  => /\ Resolved \in {"Auto", "Never"}
                     /\ Resolved = "Auto" <=> ProbedTerminal
                     /\ writer[1].inner.target = "Pipe" => Resolved = "Never"

\* C20: build resolves the write style once: Always and Never are kept for
\* every target; Auto leaves styling on only for Stdout or Stderr with a
\* true terminal probe of that stream and becomes Never otherwise, always
\* for a Pipe; whatever happens afterwards leaves the built writer as it is.
C20_ResolvedOnce ==
    /\ []ResolvedAsConfigured
    /\ [][writer # None => writer' = writer]_vars

\* Auto was resolved for stderr on a terminal; stderr was then redirected
\* and the consumed builder set to Never, and the writer still styles.
C20_Witness ==
    /\ writer # None
    /\ writer[1].write_style = "Auto"
    /\ writer[1].inner.target = "Stderr"
    /\ writer[1].probed.stderr
    /\ Resolved = "Auto"
    /\ ~tty.stderr
    /\ writer_builder.write_style = "Never"

\* ------------------------------------------- what parse_write_style must do

\* The three names of a write style, letter for letter.
StyleNamed(s) ==
    IF s = <<"a", "l", "w", "a", "y", "s">> THEN "Always"
    ELSE IF s = <<"n", "e", "v", "e", "r">> THEN "Never"
    ELSE "Auto"

\* C21: parse_write_style gives Auto, Always and Never for "auto", "always"
\* and "never", and Auto for every other string: the empty one, one in
\* another letter case, one with more or fewer characters.
C21_ParseWriteStyle ==
    style_spec # None => writer_builder.write_style = StyleNamed(style_spec[1])

\* "never " with a space after it was parsed over a builder set to Always:
\* the style is Auto.
C21_Witness ==
    /\ style_spec = Some(<<"n", "e", "v", "e", "r", " ">>)
    /\ writer_builder.write_style = "Auto"
    /\ writer # None
    /\ writer[1].write_style = "Always"

\* ------------------------------------------ a set_color that fails

\* C30: with styles on, a styled value whose set_color fails gives an error
\* at once: the content is not written and no reset is done, so nothing of
\* the value reaches the buffer.
C30_SetColorFails ==
    (StyledOn /\ ~styled.io.set_color)
        => /\ ~styled.result
           /\ OpNames = <<"set_color">>
           /\ \A i \in 1..Len(styled.ops) : styled.ops[i].op \notin {"write", "reset"}
           /\ Buffer_bytes(styled.ops) = <<>>

\* set_color failed although the content write and the reset would have
\* succeeded.
C30_Witness ==
    /\ StyledOn
    /\ ~styled.io.set_color
    /\ styled.io.write
    /\ styled.io.reset
    /\ styled.value = <<"b", "c">>
    /\ ~styled.result
    /\ style_buf = <<>>

\* --------------------------------------- one directive per piece, in order

\* The pieces of the first segment that yield a directive: trimmed, not
\* empty and not failing.
ParsedPieces == SelectSeq(Normalised(Pieces), LAMBDA p : ~FailingPiece(p))

\* The directive a trimmed piece that does not fail stands for.
PieceDirective(p) ==
    IF Count(p, "=") = 0
    THEN IF LevelNamed(p) # {}
         THEN Directive(None, CHOOSE l \in LevelNamed(p) : TRUE)
         ELSE Directive(Some(p), LevelFilter_max)
    ELSE LET name  == split(p, "=")[1]
             level == trim(split(p, "=")[2])
         IN  IF level = <<>>
             THEN Directive(Some(name), LevelFilter_max)
             ELSE Directive(Some(name), CHOOSE l \in LevelNamed(level) : TRUE)

\* C26: the directives of a parsed spec are one per piece that parsed, in the
\* order of the pieces from left to right: equal pieces give equal
\* directives twice, and nothing is sorted or merged.
C26_OnePerPieceInOrder ==
    (pc = "parsed" /\ Count(SpecStr, "/") <= 1) =>
        /\ Len(result.directives) = Len(ParsedPieces)
        /\ \A i \in 1..Len(ParsedPieces) :
              result.directives[i] = PieceDirective(ParsedPieces[i])

\* "b=,b": the name b twice, the longer piece first.
C26_Witness ==
    /\ pc = "parsed"
    /\ SpecStr = <<"b", "=", ",", "b">>
    /\ result.directives = <<Directive(Some(<<"b">>), Trace), Directive(Some(<<"b">>), Trace)>>

\* ------------------------------------------------ the names of directives

\* C27: every name among the directives of a parsed spec is trimmed, with no
\* whitespace at its start or end, also where the piece has whitespace
\* between the name and the '='.
C27_NamesTrimmed ==
    pc = "parsed" =>
        \A i \in 1..Len(result.directives) :
            result.directives[i].name # None =>
                trim(result.directives[i].name[1]) = result.directives[i].name[1]

\* ------------------------------------------------ the level of the filter

\* C24: filter() of a built filter is the most permissive level among its
\* directives, so whatever enabled allows, for any level and any target, is
\* at most filter().
C24_FilterIsMax ==
    (built /\ query.op = "filter") =>
        /\ \A i \in 1..Len(filter_directives) :
              filter_directives[i].level <= query.level
        /\ \E i \in 1..Len(filter_directives) :
              filter_directives[i].level = query.level
        /\ \A L \in Levels, t \in Targets :
              enabled(filter_directives, L, t) => L <= query.level

\* The directive with the longest name has the level Off, a shorter one
\* Debug: filter() is Debug and Debug is enabled for a target.
C24_Witness ==
    /\ built
    /\ query.op = "filter"
    /\ query.level = Debug
    /\ filter_directives[Len(filter_directives)].level = Off
    /\ \E t \in Targets : enabled(filter_directives, Debug, t)

\* ------------------------------------------- two directives of one name

\* Two positions of the directives added, the first before the second, with
\* the same name or both global.
SameName(i, j) == i < j /\ added[i].name = added[j].name

C29_ParseAppendsOverwrites ==
    [][(Len(calls') = Len(calls) + 1 /\ calls'[Len(calls')].op = "parse") =>
          LET s == calls'[Len(calls')].filters
              n == Len(builder_directives)
          IN  /\ Len(builder_directives') >= n
              /\ SubSeq(builder_directives', 1, n) = builder_directives
              /\ SubSeq(builder_directives', n + 1, Len(builder_directives'))
                    = filter_parse_spec(s).directives
              /\ builder_filter' = filter_parse_spec(s).filter
              /\ Count(s, "/") = 0 => builder_filter' = None]_vars

\* filter(Some("a"), Debug), parse("/b"), parse("ab=off"): both directives,
\* no content filter.
C29_Witness ==
    /\ ~built
    /\ Len(calls) = 3
    /\ calls[2].op = "parse"
    /\ calls[2].filters = <<"/", "b">>
    /\ calls[3].op = "parse"
    /\ calls[3].filters = <<"a", "b", "=", "o", "f", "f">>
    /\ builder_directives = <<Directive(Some(<<"a">>), Debug), Directive(Some(<<"a", "b">>), Off)>>
    /\ builder_filter = None

\* ------------------------------------------- the steps of a record

\* The steps of a record whose header is written n times, each time before
\* a part of the body.
RECURSIVE HeaderBody(_)
HeaderBody(n) ==
    IF n = 0 THEN <<>>
    ELSE <<"WritingHeader", "WritingBody">> \o HeaderBody(n - 1)

\* C25 as stated: a record goes from the header to the body and never back:
\* once its body is being written its header is not written again, under
\* every indent.
C25_Original ==
    pass.n > 0 => pass.steps = <<"WritingHeader", "WritingBody">>

\* C25 as amended: under Indent None, Spaces and Auto a record goes from the
\* header to the body and never back; under RepeatHeader the header is
\* written again after every newline of the message, so the record goes back
\* from the body to the header as many times as the message has newlines and
\* is in the body at the end.
C25_LinearUnlessRepeatHeader ==
    pass.n > 0 =>
        pass.steps =
            IF Switches.default_format_indent = Indent_RepeatHeader
            THEN HeaderBody(1 + Count(Message, "\n"))
            ELSE <<"WritingHeader", "WritingBody">>

\* A message of two lines under RepeatHeader: header, body, header, body.
C25_Witness ==
    /\ pass.n > 0
    /\ Switches.default_format_indent = Indent_RepeatHeader
    /\ Count(Message, "\n") = 1
    /\ pass.steps = <<"WritingHeader", "WritingBody", "WritingHeader", "WritingBody">>

\* ------------------------------------------- one global logger

\* The calls of try_init and init that installed their logger.
Installed == {i \in 1..Len(init_calls) : init_calls[i].result = "Ok"}

\* C22: whatever try_init and init calls are made, at most one of them
\* installs its logger; every try_init after it returns an error and every
\* init after it panics, and the logger installed and the maximum level it
\* set stay as the first install left them.
C22_InstallOnce ==
    /\ Cardinality(Installed) <= 1
    /\ \A i \in Installed :
          /\ global_logger = Some([by |-> i,
                                   directives |-> <<Directive(None, init_calls[i].level)>>])
          /\ max_log_level = init_calls[i].level
          /\ \A j \in (i + 1)..Len(init_calls) :
                init_calls[j].result =
                    IF init_calls[j].op = "init" THEN "panic" ELSE "Err"
    /\ Installed = {} => global_logger = None /\ init_calls = <<>>

\* An install at Error, then a try_init at Debug that failed and an init at
\* Debug that panicked: the logger and the maximum level are the first's.
C22_Witness ==
    /\ Len(init_calls) = 3
    /\ init_calls[1].result = "Ok"
    /\ init_calls[1].level = Error
    /\ init_calls[2].op = "try_init"
    /\ init_calls[2].level = Debug
    /\ init_calls[2].result = "Err"
    /\ init_calls[3].op = "init"
    /\ init_calls[3].level = Debug
    /\ init_calls[3].result = "panic"
    /\ global_logger # None
    /\ global_logger[1].by = 1
    /\ max_log_level = Error

\* ------------------------------------------- what a FilteredLog forwards

\* C23: log() hands the record to the wrapped log exactly when the filter
\* matches it and hands it nothing otherwise; enabled() is true exactly when
\* the filter enables the metadata and the wrapped log, then asked, says
\* yes; flush() is handed on whatever the filter is.
C23_ForwardsWhenMatches ==
    [][outer'.n = outer.n + 1 =>
          LET f == filtered_log[1].filter
              c == outer'
              sent == InnerCall(c.op, c.level, c.target, c.args)
          IN  /\ c.op = "log" =>
                    inner_calls' =
                        IF /\ enabled(f.directives, c.level, c.target)
                           /\ f.filter # None => is_match(f.filter[1], c.args)
                        THEN Append(inner_calls, sent) ELSE inner_calls
              /\ c.op = "enabled" =>
                    /\ c.result = (enabled(f.directives, c.level, c.target) /\ c.answer)
                    /\ inner_calls' \in {inner_calls, Append(inner_calls, sent)}
              /\ c.op = "flush" => inner_calls' = Append(inner_calls, sent)]_vars

\* A record the directives enable and the content filter does not match was
\* logged after a flush: the wrapped log has the flush alone.
C23_Witness ==
    /\ outer.op = "log"
    /\ enabled(filtered_log[1].filter.directives, outer.level, outer.target)
    /\ filtered_log[1].filter.filter # None
    /\ ~is_match(filtered_log[1].filter.filter[1], outer.args)
    /\ inner_calls = <<InnerCall("flush", Error, <<>>, <<>>)>>

=============================================================================
